---------------------------- MODULE Spec2Model ----------------------------
(***************************************************************************)
(* A model of the interactive terminal subsystem of fletch-site: the       *)
(* line-discipline shell (src/src/ssh/terminal.rs), the vi-like pager      *)
(* (src/src/ssh/apps.rs), the per-connection session (src/src/ssh/         *)
(* session.rs), the virtual filesystem (src/src/ssh/content.rs), the       *)
(* idle-timeout supervisor and the accept loop (src/src/ssh/mod.rs) and    *)
(* the content watcher (src/src/main.rs).                                  *)
(*                                                                         *)
(* Strings are sequences of bytes (0..255); a Rust String is the sequence  *)
(* of its UTF-8 bytes, indexed from 0 in the source and from 1 here.       *)
(***************************************************************************)
EXTENDS Integers, Sequences, FiniteSets, TLC

VARIABLES
    session,    \* the SshSession: shell, username, content (its snapshot),
                \* current_dir, term_size, running_app, channel_tx (whether
                \* it is still Some)
    stage,      \* the connection: "accepted", "authed", "open" or "ended"
    handler,    \* the data callback: "idle", "blocked" (in send), "bytes"
    pending,    \* the bytes of the current data event not yet processed
    response,   \* the response built by the current (or last) callback
    fault,      \* "none", or how the session task died: "panic" / "hang",
                \* or "abort": the server's process has been aborted
    oneshot,    \* the channel hand-off: "empty", "sent", "taken", "closed"
    notify,     \* notifications buffered in the mpsc channel (capacity 1)
    sup,        \* the timeout task: pc, sleep (ticks run of the current
                \* sleep), fired, closes (channel.close() calls made)
    quiet,      \* recv: ticks since the later of the hand-off being received
                \* and the last notification received; data: ticks since the
                \* later of the hand-off and the last data event; late: a
                \* data event came a full timeout or more after the last
    last,       \* the last callback run: op, and for a byte of data the byte
                \* and whether a pager was running when it arrived, for a
                \* channel-open request whether it was accepted
    tty,        \* an ideal remote terminal fed with the bytes process returns
    fed,        \* how many bytes a shell on its own has been fed
    server      \* the process: content (how many times CONTENT has been
                \* reloaded), signals (reload messages the SSH service has
                \* not received), snapshot (the SshContent its main holds),
                \* conns (the connections accepted, each with the snapshot
                \* it was given)

(***************************************************************************)
(* Bytes                                                                   *)
(***************************************************************************)
SOH == 1
ETX == 3
EOT == 4
ENQ == 5
BEL == 7
BS  == 8
LF  == 10
CR  == 13
ESC == 27
SP  == 32
DEL == 127

Repeat(b, n) == [i \in 1..n |-> b]

\* The command an Option<String> of None stands for (no byte is negative).
None == <<-1>>

(***************************************************************************)
(* Rust String primitives, on UTF-8 byte sequences                         *)
(***************************************************************************)
\* `data as char` pushed into a String: one byte below 128, two bytes above.
Utf8(b) == IF b < 128 THEN <<b>> ELSE <<192 + (b \div 64), 128 + (b % 64)>>

IsContinuation(b) == b >= 128 /\ b < 192

\* str::is_char_boundary(idx), idx counted from 0.
IsCharBoundary(s, idx) ==
    \/ idx = 0
    \/ idx = Len(s)
    \/ idx < Len(s) /\ ~IsContinuation(s[idx + 1])

\* Length in bytes of the character that starts at byte idx (from 0).
CharLenAt(s, idx) == IF s[idx + 1] < 128 THEN 1 ELSE 2

\* String::insert(idx, ch) for a character whose encoding is enc.
StrInsert(s, idx, enc) == SubSeq(s, 1, idx) \o enc \o SubSeq(s, idx + 1, Len(s))

\* String::remove(idx).
StrRemove(s, idx) ==
    SubSeq(s, 1, idx) \o SubSeq(s, idx + CharLenAt(s, idx) + 1, Len(s))

\* &s[idx..]
StrFrom(s, idx) == SubSeq(s, idx + 1, Len(s))

(***************************************************************************)
(* Shell (terminal.rs)                                                     *)
(***************************************************************************)
ShellDefault ==
    [cursor |-> 0, history |-> <<>>, current_history |-> << <<>> >>,
     history_index |-> 0, escape |-> <<>>]

RECURSIVE ExtendHistory(_, _, _)
\* ExtendHistory taking the stored entries oldest first.
ExtendHistoryOldestFirst(history, current, index) ==
    IF Len(current) <= index
    THEN ExtendHistory(history, Append(current, history[Len(current)]), index)
    ELSE current

ExtendHistory(history, current, index) ==
    IF Len(current) <= index
    THEN ExtendHistory(history,
                       Append(current, history[Len(history) - Len(current) + 1]),
                       index)
    ELSE current

GetLine(sh) ==
    LET index == IF sh.history_index > Len(sh.history)
                 THEN Len(sh.history) ELSE sh.history_index
    IN  [sh EXCEPT !.history_index = index,
                   !.current_history =
                       ExtendHistory(sh.history, sh.current_history, index)]

CurrentLine(sh) == GetLine(sh).current_history[GetLine(sh).history_index + 1]

\* SetLine writing a recalled line through to the stored history.
SetLineInHistory(sh, line) ==
    [sh EXCEPT !.current_history[sh.history_index + 1] = line,
               !.history = IF sh.history_index > 0
                           THEN [@ EXCEPT ![Len(@) - sh.history_index + 1] = line]
                           ELSE @]

SetLine(sh, line) ==
    [sh EXCEPT !.current_history[sh.history_index + 1] = line]

Quiet(sh) == [shell |-> sh, out |-> <<>>, cmd |-> None, panic |-> FALSE]
Panic(sh) == [shell |-> sh, out |-> <<>>, cmd |-> None, panic |-> TRUE]

\* UpDown without its move of the cursor to the end of the recalled line.
UpDownKeepsCursor(sh, line, up) ==
    IF ~up /\ sh.history_index = 0
    THEN [shell |-> sh, out |-> <<>>]
    ELSE LET moved == GetLine([sh EXCEPT !.history_index =
                                  IF up THEN @ + 1 ELSE @ - 1])
             new   == moved.current_history[moved.history_index + 1]
         IN  [shell |-> moved,
              out   |-> Repeat(BS, sh.cursor) \o Repeat(SP, Len(line))
                        \o Repeat(BS, Len(line)) \o new]

\* UpDown taking the line being edited with it when it leaves depth 0.
UpDownTakesLine(sh, line, up) ==
    IF ~up /\ sh.history_index = 0
    THEN [shell |-> sh, out |-> <<>>]
    ELSE LET left  == IF sh.history_index = 0
                      THEN [sh EXCEPT !.current_history[1] = <<>>] ELSE sh
             moved == GetLine([left EXCEPT !.history_index =
                                  IF up THEN @ + 1 ELSE @ - 1])
             new   == moved.current_history[moved.history_index + 1]
         IN  [shell |-> [moved EXCEPT !.cursor = Len(new)],
              out   |-> Repeat(BS, sh.cursor) \o Repeat(SP, Len(line))
                        \o Repeat(BS, Len(line)) \o new]

UpDown(sh, line, up) ==
    IF ~up /\ sh.history_index = 0
    THEN [shell |-> sh, out |-> <<>>]
    ELSE LET moved == GetLine([sh EXCEPT !.history_index =
                                  IF up THEN @ + 1 ELSE @ - 1])
             new   == moved.current_history[moved.history_index + 1]
         IN  [shell |-> [moved EXCEPT !.cursor = Len(new)],
              out   |-> Repeat(BS, sh.cursor) \o Repeat(SP, Len(line))
                        \o Repeat(BS, Len(line)) \o new]

\* ProcessEscape keeping in the buffer a triplet it does not recognise.
ProcessEscapeKeepsUnknown(sh0, data) ==
    LET escape == Append(sh0.escape, data)
    IN  IF Len(escape) # 3 \/ escape[3] \notin {65, 66, 67, 68}
        THEN [shell |-> [sh0 EXCEPT !.escape = escape], out |-> <<>>]
        ELSE LET sh   == [GetLine(sh0) EXCEPT !.escape = <<>>]
                 line == sh.current_history[sh.history_index + 1]
             IN  CASE escape = <<27, 91, 68>> ->
                        IF sh.cursor > 0
                        THEN [shell |-> [sh EXCEPT !.cursor = @ - 1],
                              out |-> <<27, 91, 68>>]
                        ELSE [shell |-> sh, out |-> <<>>]
                   [] escape = <<27, 91, 67>> ->
                        IF sh.cursor < Len(line)
                        THEN [shell |-> [sh EXCEPT !.cursor = @ + 1],
                              out |-> <<27, 91, 67>>]
                        ELSE [shell |-> sh, out |-> <<>>]
                   [] escape = <<27, 91, 65>> -> UpDown(sh, line, TRUE)
                   [] escape = <<27, 91, 66>> -> UpDown(sh, line, FALSE)
                   [] OTHER -> [shell |-> sh, out |-> <<>>]

ProcessEscape(sh0, data) ==
    LET escape == Append(sh0.escape, data)
    IN  IF Len(escape) # 3
        THEN [shell |-> [sh0 EXCEPT !.escape = escape], out |-> <<>>]
        ELSE LET sh   == [GetLine(sh0) EXCEPT !.escape = <<>>]
                 line == sh.current_history[sh.history_index + 1]
             IN  CASE escape = <<27, 91, 68>> ->
                        IF sh.cursor > 0
                        THEN [shell |-> [sh EXCEPT !.cursor = @ - 1],
                              out |-> <<27, 91, 68>>]
                        ELSE [shell |-> sh, out |-> <<>>]
                   [] escape = <<27, 91, 67>> ->
                        IF sh.cursor < Len(line)
                        THEN [shell |-> [sh EXCEPT !.cursor = @ + 1],
                              out |-> <<27, 91, 67>>]
                        ELSE [shell |-> sh, out |-> <<>>]
                   [] escape = <<27, 91, 65>> -> UpDown(sh, line, TRUE)
                   [] escape = <<27, 91, 66>> -> UpDown(sh, line, FALSE)
                   [] OTHER -> [shell |-> sh, out |-> <<>>]

Newline(sh, line) ==
    [shell |-> [sh EXCEPT !.history = Append(@, line),
                          !.current_history = << <<>> >>,
                          !.history_index = 0, !.cursor = 0],
     out |-> <<CR, LF>>, cmd |-> line, panic |-> FALSE]

\* Backspace erasing on the terminal even with nothing before the cursor.
BackspaceAlwaysErases(sh, line) ==
    IF sh.cursor = 0
    THEN [shell |-> sh, out |-> <<BS, SP, BS>>, cmd |-> None, panic |-> FALSE]
    ELSE LET new == StrRemove(line, sh.cursor - 1)
             cur == sh.cursor - 1
         IN  [shell |-> [SetLine(sh, new) EXCEPT !.cursor = cur],
              out |-> <<BS>> \o StrFrom(new, cur) \o <<SP>>
                      \o Repeat(BS, Len(new) - cur + 1),
              cmd |-> None, panic |-> FALSE]

Backspace(sh, line) ==
    IF sh.cursor = 0 THEN Quiet(sh)
    ELSE IF sh.cursor - 1 >= Len(line) \/ ~IsCharBoundary(line, sh.cursor - 1)
    THEN Panic(sh)
    ELSE LET new == StrRemove(line, sh.cursor - 1)
             cur == sh.cursor - 1
             sh1 == [SetLine(sh, new) EXCEPT !.cursor = cur]
         IN  IF cur = Len(new)
             THEN [shell |-> sh1, out |-> <<BS, SP, BS>>, cmd |-> None,
                   panic |-> FALSE]
             ELSE IF cur > Len(new) \/ ~IsCharBoundary(new, cur)
             THEN Panic(sh1)
             ELSE [shell |-> sh1,
                   out |-> <<BS>> \o StrFrom(new, cur) \o <<SP>>
                           \o Repeat(BS, Len(new) - cur + 1),
                   cmd |-> None, panic |-> FALSE]

CtrlC(sh) ==
    [shell |-> [sh EXCEPT !.current_history = << <<>> >>,
                          !.history_index = 0, !.cursor = 0],
     out |-> <<CR, LF>>, cmd |-> <<>>, panic |-> FALSE]

\* "exit"
CtrlD(sh) ==
    [shell |-> sh, out |-> <<>>, cmd |-> <<101, 120, 105, 116>>, panic |-> FALSE]

CtrlA(sh) ==
    [shell |-> [sh EXCEPT !.cursor = 0], out |-> Repeat(BS, sh.cursor),
     cmd |-> None, panic |-> FALSE]

CtrlE(sh, line) ==
    [shell |-> [sh EXCEPT !.cursor = Len(line)],
     out |-> Repeat(BS, Len(line) - sh.cursor), cmd |-> None, panic |-> FALSE]

Insert(sh, line, data) ==
    IF sh.cursor > Len(line) \/ ~IsCharBoundary(line, sh.cursor)
    THEN Panic(sh)
    ELSE LET new == StrInsert(line, sh.cursor, Utf8(data))
             cur == sh.cursor + 1
             sh1 == [SetLine(sh, new) EXCEPT !.cursor = cur]
         IN  IF cur < Len(new)
             THEN IF ~IsCharBoundary(new, cur)
                  THEN Panic(sh1)
                  ELSE [shell |-> sh1,
                        out |-> <<data>> \o StrFrom(new, cur)
                                \o Repeat(BS, Len(new) - cur),
                        cmd |-> None, panic |-> FALSE]
             ELSE [shell |-> sh1, out |-> <<data>>, cmd |-> None,
                   panic |-> FALSE]

Process(sh0, data) ==
    IF sh0.escape # <<>>
    THEN LET r == ProcessEscape(sh0, data)
         IN  [shell |-> r.shell, out |-> r.out, cmd |-> None, panic |-> FALSE]
    ELSE LET sh   == GetLine(sh0)
             line == sh.current_history[sh.history_index + 1]
         IN  CASE data \in {CR, LF}  -> Newline(sh, line)
               [] data \in {BS, DEL} -> Backspace(sh, line)
               [] data = ETX -> CtrlC(sh)
               [] data = EOT -> CtrlD(sh)
               [] data = SOH -> CtrlA(sh)
               [] data = ENQ -> CtrlE(sh, line)
               [] data = ESC -> [Quiet(sh) EXCEPT !.shell.escape = <<ESC>>]
               [] data >= 32 /\ data # DEL -> Insert(sh, line, data)
               [] OTHER -> Quiet(sh)

(***************************************************************************)
(* Virtual filesystem (content.rs)                                         *)
(***************************************************************************)
Slash == 47
Dot == 46

Contains(s, c) == \E i \in 1..Len(s) : s[i] = c
FirstIndex(s, c) == CHOOSE i \in 1..Len(s) : s[i] = c /\ \A j \in 1..(i - 1) : s[j] # c
LastIndex(s, c) == CHOOSE i \in 1..Len(s) : s[i] = c /\ \A j \in (i + 1)..Len(s) : s[j] # c

\* str::split(c), collected.
RECURSIVE Split(_, _)
Split(s, c) ==
    IF ~Contains(s, c) THEN <<s>>
    ELSE <<SubSeq(s, 1, FirstIndex(s, c) - 1)>>
         \o Split(SubSeq(s, FirstIndex(s, c) + 1, Len(s)), c)

\* str::replace('\n', "\r\n")
RECURSIVE ReplaceLf(_)
ReplaceLf(s) ==
    IF s = <<>> THEN <<>>
    ELSE (IF Head(s) = LF THEN <<CR, LF>> ELSE <<Head(s)>>) \o ReplaceLf(Tail(s))

\* str::split("\r\n"), collected.
RECURSIVE SplitCrLf(_, _)
SplitCrLf(s, acc) ==
    IF s = <<>> THEN <<acc>>
    ELSE IF Len(s) >= 2 /\ s[1] = CR /\ s[2] = LF
    THEN <<acc>> \o SplitCrLf(SubSeq(s, 3, Len(s)), <<>>)
    ELSE SplitCrLf(Tail(s), Append(acc, Head(s)))

FileNew(contents) == [contents |-> contents, lines |-> SplitCrLf(contents, <<>>)]

\* Option<usize>::None for a parent index.
NoParent == -1
EmptyMap == [n \in {} |-> 0]

\* Directories are held in an arena indexed from 0: directory i is dirs[i + 1].
AddFile(dirs, dir_i, filename, file) ==
    [dirs EXCEPT ![dir_i + 1].files = (filename :> file) @@ @]

AddChild(dirs, parent_i, child_name) ==
    LET child == [path |-> dirs[parent_i + 1].path
                           \o (IF parent_i # 0 THEN <<Slash>> ELSE <<>>)
                           \o child_name,
                  parent |-> parent_i,
                  directories |-> EmptyMap,
                  files |-> EmptyMap]
    IN  Append([dirs EXCEPT ![parent_i + 1].directories =
                    (child_name :> Len(dirs)) @@ @],
               child)

RECURSIVE AddFiles(_, _, _)
AddFiles(dirs, dir_i, items) ==
    IF items = <<>> THEN dirs
    ELSE AddFiles(AddFile(dirs, dir_i, Head(items).name,
                          FileNew(ReplaceLf(Head(items).text))),
                  dir_i, Tail(items))

\* "home.txt", "themes.txt", "projects", "blog"
HomeTxt == <<104, 111, 109, 101, 46, 116, 120, 116>>
ThemesTxt == <<116, 104, 101, 109, 101, 115, 46, 116, 120, 116>>
ProjectsName == <<112, 114, 111, 106, 101, 99, 116, 115>>
BlogName == <<98, 108, 111, 103>>

\* SshContent::new: site gives the rendered pages (before their line ends are
\* made CRLF) and, per project and post, its file name and rendered text.
SshContentNew(site) ==
    LET root == << [path |-> <<Slash>>, parent |-> NoParent,
                    directories |-> EmptyMap, files |-> EmptyMap] >>
        d1 == AddFile(root, 0, HomeTxt, FileNew(ReplaceLf(site.home)))
        d2 == AddFile(d1, 0, ThemesTxt, FileNew(ReplaceLf(site.themes)))
        d3 == AddChild(d2, 0, ProjectsName)
        d4 == AddFiles(d3, Len(d3) - 1, site.projects)
        d5 == AddChild(d4, 0, BlogName)
    IN  AddFiles(d5, Len(d5) - 1, site.blog_posts)

\* Option<&Directory>::None / Option<&File>::None
NoDir == -1
NoFile == [contents |-> <<-1>>, lines |-> <<>>]

\* dir_at: the index of the directory a path names, walking from the root.
RECURSIVE Walk(_, _, _)
\* Walk looking "." up as the name of a child.
WalkDotIsAName(dirs, dir, parts) ==
    IF parts = <<>> THEN dir
    ELSE LET part == Head(parts)
         IN  IF part = <<>>
             THEN Walk(dirs, dir, Tail(parts))
             ELSE IF part = <<Dot, Dot>>
             THEN Walk(dirs,
                       IF dirs[dir + 1].parent # NoParent
                       THEN dirs[dir + 1].parent ELSE dir,
                       Tail(parts))
             ELSE IF part \in DOMAIN dirs[dir + 1].directories
             THEN Walk(dirs, dirs[dir + 1].directories[part], Tail(parts))
             ELSE NoDir

Walk(dirs, dir, parts) ==
    IF parts = <<>> THEN dir
    ELSE LET part == Head(parts)
         IN  IF part = <<>> \/ part = <<Dot>>
             THEN Walk(dirs, dir, Tail(parts))
             ELSE IF part = <<Dot, Dot>>
             THEN Walk(dirs,
                       IF dirs[dir + 1].parent # NoParent
                       THEN dirs[dir + 1].parent ELSE dir,
                       Tail(parts))
             ELSE IF part \in DOMAIN dirs[dir + 1].directories
             THEN Walk(dirs, dirs[dir + 1].directories[part], Tail(parts))
             ELSE NoDir

DirAt(dirs, path) == Walk(dirs, 0, Split(path, Slash))

GetFile(dirs, current_dir, full_path) ==
    LET split == Contains(full_path, Slash)
        directory == SubSeq(full_path, 1, LastIndex(full_path, Slash) - 1)
        filename == IF split
                    THEN SubSeq(full_path, LastIndex(full_path, Slash) + 1,
                                Len(full_path))
                    ELSE full_path
        path == IF ~split THEN dirs[current_dir + 1].path
                ELSE IF directory = <<>> \/ Head(directory) = Slash
                THEN directory
                ELSE dirs[current_dir + 1].path \o directory
        d == DirAt(dirs, path)
    IN  IF d # NoDir /\ filename \in DOMAIN dirs[d + 1].files
        THEN dirs[d + 1].files[filename]
        ELSE NoFile

(***************************************************************************)
(* TerminalUtils (terminal.rs)                                             *)
(***************************************************************************)
RECURSIVE Decimal(_)
Decimal(n) == IF n < 10 THEN <<48 + n>> ELSE Decimal(n \div 10) \o <<48 + (n % 10)>>

U16Max == 65535

\* move_cursor(x: u16, y: u16): "\x1b[{y+1};{x+1}H".  The two additions are
\* u16 additions: at 65535 a build with overflow checks panics and one
\* without writes 0.  data is what the unchecked build writes, overflow
\* tells that a checked build panics instead.
MoveCursor(x, y) ==
    [data |-> <<27, 91>> \o Decimal((y + 1) % (U16Max + 1)) \o <<59>>
              \o Decimal((x + 1) % (U16Max + 1)) \o <<72>>,
     overflow |-> x = U16Max \/ y = U16Max]

\* "\x1b[2J"
Clear == <<27, 91, 50, 74>>

(***************************************************************************)
(* Vim, the pager (apps.rs)                                                *)
(*                                                                         *)
(* A result's fault is "none", "panic", "hang" (a loop that never ends),   *)
(* "overflow": an integer overflow, which panics in a build with overflow  *)
(* checks and wraps around in one without, into a loop that never ends,    *)
(* "wraps": move_cursor's u16 addition has overflowed, which panics in a   *)
(* build with overflow checks, while one without goes on with the vim and  *)
(* out of the result, a 0 written where 65536 was meant, "overdraws": the  *)
(* same in a render of 65536 rows or more, whose Vec a build without       *)
(* overflow checks may also fail to allocate, or "exhausts":               *)
(* an integer overflow which panics in a build with overflow checks and    *)
(* in one without leaves render usize::MAX rows to append to its Vec,      *)
(* until an allocation fails and the process is aborted.                   *)
(***************************************************************************)
Min(a, b) == IF a < b THEN a ELSE b
Max(a, b) == IF a > b THEN a ELSE b

AsU16(n) == n % 65536

\* usize::MAX / 4, for a 32-bit usize.
UsizeMaxDiv4 == 1073741823

\* Option<Box<dyn RunningApp>>::None
NoApp == [cursor_pos |-> <<-1, -1>>]

Lines(v) == v.file.lines

\* &line[from..to]: faults unless from <= to <= len on character boundaries.
SliceOk(line, from, to) ==
    /\ from <= to /\ to <= Len(line)
    /\ IsCharBoundary(line, from) /\ IsCharBoundary(line, to)

\* The screen rows taken by the file lines from..to-1 (counted from 0).
RECURSIVE RowsBetween(_, _, _)
RowsBetween(v, from, to) ==
    IF from >= to \/ from >= Len(Lines(v)) THEN 0
    ELSE (Len(Lines(v)[from + 1]) \div v.term_size[1]) + 1
         + RowsBetween(v, from + 1, to)

\* get_cursor_screen without the adjustment for a cursor on a wrapped row.
GetCursorScreenUnwrapped(v) ==
    LET cx == v.cursor_pos[1]
        cy == v.cursor_pos[2]
        w  == v.term_size[1]
    IN  IF \/ cy < v.scroll_pos[1]
           \/ cy = v.scroll_pos[1] /\ cx < v.scroll_pos[2] * w
        THEN [x |-> 0, y |-> -1, panic |-> FALSE]
        ELSE IF w = 0
        THEN [x |-> 0, y |-> 0, panic |-> TRUE]
        ELSE [x |-> Min(cx, Max(Len(Lines(v)[cy + 1]), 1) - 1),
              y |-> RowsBetween(v, v.scroll_pos[1], cy) - v.scroll_pos[2],
              panic |-> FALSE]

GetCursorScreen(v) ==
    LET cx == v.cursor_pos[1]
        cy == v.cursor_pos[2]
        w  == v.term_size[1]
    IN  IF \/ cy < v.scroll_pos[1]
           \/ cy = v.scroll_pos[1] /\ cx < v.scroll_pos[2] * w
        THEN [x |-> 0, y |-> -1, panic |-> FALSE]
        ELSE IF w = 0
        THEN [x |-> 0, y |-> 0, panic |-> TRUE]
        ELSE LET effective_x == Min(cx, Max(Len(Lines(v)[cy + 1]), 1) - 1)
                 screen_y == RowsBetween(v, v.scroll_pos[1], cy) - v.scroll_pos[2]
             IN  [x |-> effective_x % w,
                  y |-> screen_y + (effective_x \div w),
                  panic |-> FALSE]

\* "~", "\r\n: Ctrl-C to quit"
Placeholder == <<126>>
StatusHint == <<13, 10, 58, 32, 67, 116, 114, 108, 45, 67, 32, 116, 111, 32,
                113, 117, 105, 116>>

\* The body of render's loop, for rows y.. : line is the index (from 0) of
\* current_line, start is current_line_start.
RECURSIVE RenderRows(_, _, _, _)
RenderRows(v, y, line, start) ==
    IF y >= v.available_height
    THEN [out |-> <<>>, panic |-> FALSE, overflow |-> FALSE]
    ELSE LET w    == v.term_size[1]
             here == MoveCursor(0, AsU16(y))
             text == Lines(v)[line + 1]
         IN  IF line >= Len(Lines(v))
             THEN LET rest == RenderRows(v, y + 1, line, start)
                  IN  [rest EXCEPT !.out = here.data \o Placeholder \o @,
                                   !.overflow = @ \/ here.overflow]
             ELSE IF Len(text) >= start + w
             THEN IF ~SliceOk(text, start, start + w)
                  THEN [out |-> <<>>, panic |-> TRUE, overflow |-> FALSE]
                  ELSE LET rest == RenderRows(v, y + 1, line, start + w)
                       IN  [rest EXCEPT !.out =
                               here.data \o SubSeq(text, start + 1, start + w) \o @,
                                        !.overflow = @ \/ here.overflow]
             ELSE IF ~SliceOk(text, start, Len(text))
                  THEN [out |-> <<>>, panic |-> TRUE, overflow |-> FALSE]
                  ELSE LET rest == RenderRows(v, y + 1, line + 1, 0)
                       IN  [rest EXCEPT !.out = here.data \o StrFrom(text, start) \o @,
                                        !.overflow = @ \/ here.overflow]

\* Render leaving the cursor at its stored column, not at the column
\* get_cursor_screen computes.
RenderAtStoredColumn(v) ==
    LET rows   == RenderRows(v, 0, v.scroll_pos[1], v.scroll_pos[2] * v.term_size[1])
        screen == GetCursorScreen(v)
    IN  IF rows.panic \/ screen.panic
        THEN [out |-> <<>>, panic |-> TRUE, overflow |-> FALSE]
        ELSE [out |-> Clear \o MoveCursor(0, 0).data \o rows.out \o StatusHint
                      \o MoveCursor(AsU16(v.cursor_pos[1]), AsU16(screen.y)).data,
              panic |-> FALSE,
              overflow |-> \/ rows.overflow
                           \/ MoveCursor(AsU16(v.cursor_pos[1]),
                                         AsU16(screen.y)).overflow]

Render(v) ==
    LET rows   == RenderRows(v, 0, v.scroll_pos[1], v.scroll_pos[2] * v.term_size[1])
        screen == GetCursorScreen(v)
    IN  IF rows.panic \/ screen.panic
        THEN [out |-> <<>>, panic |-> TRUE, overflow |-> FALSE]
        ELSE [out |-> Clear \o MoveCursor(0, 0).data \o rows.out \o StatusHint
                      \o MoveCursor(AsU16(screen.x), AsU16(screen.y)).data,
              panic |-> FALSE,
              overflow |-> \/ rows.overflow
                           \/ MoveCursor(AsU16(screen.x), AsU16(screen.y)).overflow]

VimFault(v, kind) == [vim |-> v, out |-> <<>>, fault |-> kind]

\* update_cursor's loop: UpdateTurn is one turn of it, screen what
\* get_cursor_screen returned.  The loop's only state is the scroll position,
\* so a scroll position met twice is a loop that never ends.
Rendered(v, r) ==
    IF r.panic THEN VimFault(v, "panic")
    ELSE [vim |-> v, out |-> r.out,
          fault |-> IF r.overflow THEN "overdraws" ELSE "none"]

RECURSIVE UpdateLoop(_, _, _)
\* UpdateTurn scrolling by one step at most, then rendering.
UpdateTurnScrollsOnce(v, seen, must_rerender, screen) ==
    LET w == v.term_size[1]
        up == IF v.scroll_pos[2] > 0 THEN [v EXCEPT !.scroll_pos[2] = @ - 1]
              ELSE [v EXCEPT !.scroll_pos[1] = @ - 1]
        down == IF (v.scroll_pos[2] + 1) * w < Len(Lines(v)[v.scroll_pos[1] + 1])
                THEN [v EXCEPT !.scroll_pos[2] = @ + 1]
                ELSE [v EXCEPT !.scroll_pos = <<@[1] + 1, 0>>]
    IN  IF screen.panic THEN VimFault(v, "panic")
        ELSE IF screen.y < 0
        THEN IF v.scroll_pos = <<0, 0>> THEN VimFault(v, "overflow")
             ELSE Rendered(up, Render(up))
        ELSE IF screen.y >= v.available_height
        THEN IF v.scroll_pos[1] >= Len(Lines(v)) THEN VimFault(v, "panic")
             ELSE IF v.available_height = 0 THEN VimFault(v, "hang")
             ELSE Rendered(down, Render(down))
        ELSE IF must_rerender THEN Rendered(v, Render(v))
        ELSE [vim |-> v,
              out |-> MoveCursor(AsU16(screen.x), AsU16(screen.y)).data,
              fault |-> IF MoveCursor(AsU16(screen.x), AsU16(screen.y)).overflow
                        THEN "wraps" ELSE "none"]

UpdateTurn(v, seen, must_rerender, screen) ==
    LET w == v.term_size[1]
    IN  IF screen.panic THEN VimFault(v, "panic")
        ELSE IF v.scroll_pos \in seen THEN VimFault(v, "hang")
        ELSE IF screen.y < 0
        THEN IF v.scroll_pos[2] > 0
             THEN UpdateLoop([v EXCEPT !.scroll_pos[2] = @ - 1],
                             seen \cup {v.scroll_pos}, TRUE)
             ELSE IF v.scroll_pos[1] = 0 THEN VimFault(v, "overflow")
             ELSE UpdateLoop([v EXCEPT !.scroll_pos[1] = @ - 1],
                             seen \cup {v.scroll_pos}, TRUE)
        ELSE IF screen.y >= v.available_height
        THEN IF v.scroll_pos[1] >= Len(Lines(v)) THEN VimFault(v, "panic")
             ELSE IF (v.scroll_pos[2] + 1) * w < Len(Lines(v)[v.scroll_pos[1] + 1])
             THEN UpdateLoop([v EXCEPT !.scroll_pos[2] = @ + 1],
                             seen \cup {v.scroll_pos}, TRUE)
             ELSE UpdateLoop([v EXCEPT !.scroll_pos = <<@[1] + 1, 0>>],
                             seen \cup {v.scroll_pos}, TRUE)
        ELSE IF must_rerender THEN Rendered(v, Render(v))
        ELSE [vim |-> v,
              out |-> MoveCursor(AsU16(screen.x), AsU16(screen.y)).data,
              fault |-> IF MoveCursor(AsU16(screen.x), AsU16(screen.y)).overflow
                        THEN "wraps" ELSE "none"]

UpdateLoop(v, seen, must_rerender) ==
    UpdateTurn(v, seen, must_rerender, GetCursorScreen(v))

UpdateCursor(v) == UpdateLoop(v, {}, FALSE)

\* MoveX moving by delta wherever the cursor is.
MoveXUnclamped(v, delta) ==
    UpdateCursor([v EXCEPT !.cursor_pos[1] = Max(@ + delta, 0)])

\* MoveX moving left from the stored column, beyond the line or not.
MoveXLeftFromStored(v, delta) ==
    LET last_char == Max(Len(Lines(v)[v.cursor_pos[2] + 1]), 1) - 1
    IN  IF v.cursor_pos[1] >= last_char /\ delta >= 0
        THEN [vim |-> v, out |-> <<>>, fault |-> "none"]
        ELSE UpdateCursor([v EXCEPT !.cursor_pos[1] = Max(@ + delta, 0)])

MoveX(v, delta) ==
    LET last_char == Max(Len(Lines(v)[v.cursor_pos[2] + 1]), 1) - 1
        at_end    == v.cursor_pos[1] >= last_char
        from      == IF at_end THEN last_char ELSE v.cursor_pos[1]
    IN  IF at_end /\ delta >= 0
        THEN [vim |-> v, out |-> <<>>, fault |-> "none"]
        ELSE UpdateCursor([v EXCEPT !.cursor_pos[1] = Max(from + delta, 0)])

MoveY(v, delta) ==
    UpdateCursor([v EXCEPT !.cursor_pos[2] =
                     Max(0, Min(@ + delta, Len(Lines(v)) - 1))])

\* Vim::data; 104..108 are b'h'..=b'l', 36 is b'$'.
VimData(v, data) ==
    CASE data = 104 -> MoveX(v, -1)
      [] data = 106 -> MoveY(v, 1)
      [] data = 107 -> MoveY(v, -1)
      [] data = 108 -> MoveX(v, 1)
      [] data = 105 -> VimFault(v, "panic")
      [] data = 36  -> UpdateCursor([v EXCEPT !.cursor_pos[1] = UsizeMaxDiv4])
      [] OTHER -> [vim |-> v, out |-> <<>>, fault |-> "none"]

\* result.extend(self.render())
Extend(moved, drawn) ==
    IF drawn.panic THEN VimFault(moved.vim, "panic")
    ELSE [vim |-> moved.vim, out |-> moved.out \o drawn.out,
          fault |-> IF drawn.overflow THEN "overdraws" ELSE moved.fault]

Redrawn(moved) ==
    IF moved.fault \notin {"none", "wraps", "overdraws"} THEN moved
    ELSE Extend(moved, Render(moved.vim))

\* At height 0 the subtraction overflows: wrapped, available_height is
\* usize::MAX, which update_cursor compares as the isize -1.
VimResize(v, width, height) ==
    IF height = 0
    THEN IF UpdateCursor([v EXCEPT !.term_size = <<AsU16(width), 0>>,
                                   !.available_height = -1]).fault = "panic"
         THEN VimFault(v, "panic")
         ELSE VimFault(v, "overflow")
    ELSE Redrawn(UpdateCursor(
             [v EXCEPT !.term_size = <<AsU16(width), AsU16(height)>>,
                       !.available_height = height - 1]))

\* "vi: usage: vi <filename>\r\n", "vi: cannot open \"", "\": No such file\r\n"
ViUsage == <<118, 105, 58, 32, 117, 115, 97, 103, 101, 58, 32, 118, 105, 32, 60,
             102, 105, 108, 101, 110, 97, 109, 101, 62, 13, 10>>
ViCannotOpen == <<118, 105, 58, 32, 99, 97, 110, 110, 111, 116, 32, 111, 112,
                  101, 110, 32, 34>>
NoSuchFile == <<34, 58, 32, 78, 111, 32, 115, 117, 99, 104, 32, 102, 105, 108,
                101, 13, 10>>

\* Vim::startup: ok tells Ok((app, response)) from Err(response).  At height
\* 0 the subtraction overflows: wrapped, render has usize::MAX rows to draw,
\* and panics on a row of the file it cannot slice or, past the file's rows
\* (whole), runs out of memory; at width 0 it never leaves the first line.
VimStartup(dirs, current_dir, term_size, command) ==
    LET parts == Split(command, SP)
        file  == GetFile(dirs, current_dir, parts[2])
        vim   == [cursor_pos |-> <<0, 0>>, scroll_pos |-> <<0, 0>>,
                  term_size |-> term_size,
                  available_height |-> term_size[2] - 1,
                  file |-> file]
        drawn == Render(vim)
        whole == [vim EXCEPT !.available_height =
                                RowsBetween(vim, 0, Len(Lines(vim)))]
    IN  IF Len(parts) < 2
        THEN [ok |-> FALSE, vim |-> NoApp, out |-> ViUsage, fault |-> "none"]
        ELSE IF file = NoFile
        THEN [ok |-> FALSE, vim |-> NoApp,
              out |-> ViCannotOpen \o parts[2] \o NoSuchFile, fault |-> "none"]
        ELSE IF term_size[1] > U16Max \/ term_size[2] > U16Max
        THEN [ok |-> FALSE, vim |-> NoApp, out |-> <<>>, fault |-> "panic"]
        ELSE IF term_size[2] = 0
        THEN [ok |-> FALSE, vim |-> NoApp, out |-> <<>>,
              fault |-> IF term_size[1] # 0 /\ RenderRows(whole, 0, 0, 0).panic
                        THEN "panic" ELSE "exhausts"]
        ELSE IF drawn.panic
        THEN [ok |-> FALSE, vim |-> NoApp, out |-> <<>>, fault |-> "panic"]
        ELSE [ok |-> TRUE, vim |-> vim, out |-> drawn.out,
              fault |-> IF drawn.overflow THEN "overdraws" ELSE "none"]

(***************************************************************************)
(* SshSession (session.rs)                                                 *)
(***************************************************************************)
\* content.rs: WELCOME_MESSAGE
WelcomeMessage ==
    <<87, 101, 108, 99, 111, 109, 101, 32, 116, 111, 32, 116, 104, 101, 32,
      83, 83, 72, 32, 118, 101, 114, 115, 105, 111, 110, 32, 111, 102, 32,
      109, 121, 32, 119, 101, 98, 115, 105, 116, 101, 33, 32, 84, 104, 105,
      115, 32, 105, 115, 32, 118, 101, 114, 121, 32, 109, 117, 99, 104, 32,
      97, 32, 119, 111, 114, 107, 32, 105, 110, 32, 112, 114, 111, 103,
      114, 101, 115, 115, 44, 32, 98, 117, 116, 32, 73, 32, 104, 111, 112,
      101, 32, 121, 111, 117, 32, 101, 110, 106, 111, 121, 32, 105, 116,
      32, 110, 111, 110, 101, 116, 104, 101, 108, 101, 115, 115, 33, 13,
      10, 84, 111, 32, 110, 97, 118, 105, 103, 97, 116, 101, 44, 32, 117,
      115, 101, 32, 116, 104, 101, 32, 39, 108, 115, 39, 32, 97, 110, 100,
      32, 39, 99, 100, 39, 32, 99, 111, 109, 109, 97, 110, 100, 115, 32,
      116, 111, 32, 115, 101, 101, 32, 116, 104, 101, 32, 97, 118, 97, 105,
      108, 97, 98, 108, 101, 32, 112, 97, 103, 101, 115, 32, 97, 110, 100,
      32, 39, 99, 97, 116, 39, 32, 111, 114, 32, 39, 118, 105, 39, 32, 116,
      111, 32, 118, 105, 101, 119, 32, 116, 104, 101, 109, 46, 13, 10, 73,
      102, 32, 121, 111, 117, 32, 104, 97, 118, 101, 32, 97, 110, 121, 32,
      102, 101, 101, 100, 98, 97, 99, 107, 44, 32, 117, 115, 101, 32, 116,
      104, 101, 32, 39, 109, 115, 103, 39, 32, 99, 111, 109, 109, 97, 110,
      100, 32, 116, 111, 32, 115, 101, 110, 100, 32, 105, 116, 32, 40, 111,
      114, 32, 118, 105, 101, 119, 32, 97, 110, 121, 32, 114, 101, 112,
      108, 105, 101, 115, 32, 116, 111, 32, 109, 101, 115, 115, 97, 103,
      101, 115, 32, 121, 111, 117, 39, 118, 101, 32, 115, 101, 110, 116,
      41, 46, 13, 10, 84, 111, 32, 115, 101, 101, 32, 116, 104, 105, 115,
      32, 109, 101, 115, 115, 97, 103, 101, 32, 97, 103, 97, 105, 110, 44,
      32, 106, 117, 115, 116, 32, 117, 115, 101, 32, 96, 104, 101, 108,
      112, 96, 44, 32, 97, 110, 100, 32, 119, 104, 101, 110, 32, 121, 111,
      117, 39, 114, 101, 32, 114, 101, 97, 100, 121, 32, 116, 111, 32, 103,
      111, 44, 32, 116, 121, 112, 101, 32, 39, 101, 120, 105, 116, 39, 32,
      111, 114, 32, 39, 108, 111, 103, 111, 117, 116, 39, 32, 40, 111, 114,
      32, 67, 116, 114, 108, 45, 68, 41, 46, 13, 10>>

\* CONFIG.domain, read from the environment: "d.io" stands for it.
Domain == <<100, 46, 105, 111>>

\* The rendered site the snapshot is built from: short stand-ins for the
\* pages, one project and one post.
Site ==
    [home       |-> <<97, 98, 99, 10, 100, 101, 102, 103, 104>>,
     themes     |-> <<10, 97, 98, 99, 100, 101, 102, 103, 10, 97>>,
     projects   |-> << [name |-> <<112, 46, 116, 120, 116>>,
                        text |-> <<120, 121>>] >>,
     blog_posts |-> << [name |-> <<50, 48, 50, 51, 48, 49, 48, 49, 95, 98, 46,
                                   116, 120, 116>>,
                        text |-> <<122>>] >>]

Content == SshContentNew(Site)

\* SshSession::new, given the snapshot main holds; channel_tx is TRUE while
\* the session holds the oneshot sender.
SessionNew ==
    [shell |-> ShellDefault, username |-> <<>>, content |-> Content,
     current_dir |-> 0, term_size |-> <<80, 24>>, running_app |-> NoApp,
     channel_tx |-> TRUE]

\* "@", ":", "> "
Prompt(s) ==
    s.username \o <<64>> \o Domain \o <<58>> \o s.content[s.current_dir + 1].path
    \o <<62, 32>>

\* Byte strings in the order of a BTreeMap's keys.
RECURSIVE StrLess(_, _)
StrLess(a, b) ==
    IF a = <<>> THEN b # <<>>
    ELSE IF b = <<>> THEN FALSE
    ELSE IF Head(a) # Head(b) THEN Head(a) < Head(b)
    ELSE StrLess(Tail(a), Tail(b))

RECURSIVE Sorted(_)
Sorted(names) ==
    IF names = {} THEN <<>>
    ELSE LET first == CHOOSE n \in names : \A m \in names \ {n} : StrLess(n, m)
         IN  <<first>> \o Sorted(names \ {first})

RECURSIVE Listing(_)
Listing(names) ==
    IF names = <<>> THEN <<>>
    ELSE Head(names) \o <<CR, LF>> \o Listing(Tail(names))

\* "exit", "logout", "help", "ls", "cd", "cat", "vi"
CmdExit == <<101, 120, 105, 116>>
CmdLogout == <<108, 111, 103, 111, 117, 116>>
CmdHelp == <<104, 101, 108, 112>>
CmdLs == <<108, 115>>
CmdCd == <<99, 100>>
CmdCat == <<99, 97, 116>>
CmdVi == <<118, 105>>

\* "\": no such directory\r\n", "cat: usage: cat <filename>\r\n",
\* "cat: cannot open \"", ": command not found\r\n"
NoSuchDirectory == <<34, 58, 32, 110, 111, 32, 115, 117, 99, 104, 32, 100, 105,
                     114, 101, 99, 116, 111, 114, 121, 13, 10>>
CatUsage == <<99, 97, 116, 58, 32, 117, 115, 97, 103, 101, 58, 32, 99, 97, 116,
              32, 60, 102, 105, 108, 101, 110, 97, 109, 101, 62, 13, 10>>
CatCannotOpen == <<99, 97, 116, 58, 32, 99, 97, 110, 110, 111, 116, 32, 111,
                   112, 101, 110, 32, 34>>
CommandNotFound == <<58, 32, 99, 111, 109, 109, 97, 110, 100, 32, 110, 111, 116,
                     32, 102, 111, 117, 110, 100, 13, 10>>

\* What running a command changes and answers: end is TRUE on a disconnect.
Ran(s, out) == [sess |-> s, out |-> out, end |-> FALSE, fault |-> "none"]

\* Cd going back to the root when the directory named is not found.
CdFailureGoesToRoot(s, command) ==
    LET parts == Split(command, SP)
        dir == IF Len(parts) >= 2 THEN parts[2] ELSE <<>>
        current == s.content[s.current_dir + 1]
    IN  IF dir = <<Dot, Dot>>
        THEN Ran([s EXCEPT !.current_dir =
                     IF current.parent # NoParent THEN current.parent ELSE @],
                 <<>>)
        ELSE IF dir \in DOMAIN current.directories
        THEN Ran([s EXCEPT !.current_dir = current.directories[dir]], <<>>)
        ELSE Ran([s EXCEPT !.current_dir = 0], <<34>> \o dir \o NoSuchDirectory)

Cd(s, command) ==
    LET parts == Split(command, SP)
        dir == IF Len(parts) >= 2 THEN parts[2] ELSE <<>>
        current == s.content[s.current_dir + 1]
    IN  IF dir = <<Dot, Dot>>
        THEN Ran([s EXCEPT !.current_dir =
                     IF current.parent # NoParent THEN current.parent ELSE @],
                 <<>>)
        ELSE IF dir \in DOMAIN current.directories
        THEN Ran([s EXCEPT !.current_dir = current.directories[dir]], <<>>)
        ELSE Ran(s, <<34>> \o dir \o NoSuchDirectory)

Cat(s, command) ==
    LET parts == Split(command, SP)
        file == GetFile(s.content, s.current_dir, parts[2])
    IN  IF Len(parts) < 2 THEN Ran(s, CatUsage)
        ELSE IF file = NoFile
        THEN Ran(s, CatCannotOpen \o parts[2] \o NoSuchFile)
        ELSE Ran(s, file.contents)

Started(s, r) ==
    [sess |-> IF r.ok THEN [s EXCEPT !.running_app = r.vim] ELSE s,
     out |-> r.out, end |-> FALSE, fault |-> r.fault]

Vi(s, command) ==
    Started(s, VimStartup(s.content, s.current_dir, s.term_size, command))

\* Dispatch naming only the verb of a command it does not know.
DispatchNamesVerb(s, command) ==
    LET command_name == Split(command, SP)[1]
        current == s.content[s.current_dir + 1]
    IN  CASE command_name \in {CmdExit, CmdLogout} ->
                [sess |-> s, out |-> <<>>, end |-> TRUE, fault |-> "none"]
          [] command_name = CmdHelp -> Ran(s, WelcomeMessage)
          [] command_name = CmdLs ->
                Ran(s, Listing(Sorted(DOMAIN current.directories))
                       \o Listing(Sorted(DOMAIN current.files)))
          [] command_name = CmdCd -> Cd(s, command)
          [] command_name = CmdCat -> Cat(s, command)
          [] command_name = CmdVi -> Vi(s, command)
          [] command_name = <<>> -> Ran(s, <<>>)
          [] OTHER -> Ran(s, command_name \o CommandNotFound)

Dispatch(s, command) ==
    LET command_name == Split(command, SP)[1]
        current == s.content[s.current_dir + 1]
    IN  CASE command_name \in {CmdExit, CmdLogout} ->
                [sess |-> s, out |-> <<>>, end |-> TRUE, fault |-> "none"]
          [] command_name = CmdHelp -> Ran(s, WelcomeMessage)
          [] command_name = CmdLs ->
                Ran(s, Listing(Sorted(DOMAIN current.directories))
                       \o Listing(Sorted(DOMAIN current.files)))
          [] command_name = CmdCd -> Cd(s, command)
          [] command_name = CmdCat -> Cat(s, command)
          [] command_name = CmdVi -> Vi(s, command)
          [] command_name = <<>> -> Ran(s, <<>>)
          [] OTHER -> Ran(s, command \o CommandNotFound)

\* Reprompt with its test of running_app the wrong way round.
RepromptInverted(echo, d) ==
    IF d.end \/ d.fault \notin {"none", "wraps", "overdraws"} THEN d
    ELSE [d EXCEPT !.out = echo \o d.out
                           \o (IF d.sess.running_app # NoApp
                               THEN Prompt(d.sess) ELSE <<>>)]

\* After a command: the shell's echo, the command's output, and the prompt
\* again unless an app was started; nothing on a disconnect.
Reprompt(echo, d) ==
    IF d.end \/ d.fault \notin {"none", "wraps", "overdraws"} THEN d
    ELSE [d EXCEPT !.out = echo \o d.out
                           \o (IF d.sess.running_app = NoApp
                               THEN Prompt(d.sess) ELSE <<>>)]

\* A byte with no app running: r is what the shell made of it.
ShellByte(s, r) ==
    IF r.panic
    THEN [sess |-> s, out |-> <<>>, end |-> FALSE, fault |-> "panic"]
    ELSE IF r.cmd = None THEN Ran([s EXCEPT !.shell = r.shell], r.out)
    ELSE Reprompt(r.out, Dispatch([s EXCEPT !.shell = r.shell], r.cmd))

\* Quit without the clearing of the screen.
QuitNoClear(s) == Ran(s, Prompt(s))

\* Ctrl-C with an app running.
Quit(s) == Ran(s, Clear \o MoveCursor(0, 0).data \o Prompt(s))

\* Any other byte with an app running: r is what the app made of it.
AppByte(s, r) ==
    [sess |-> [s EXCEPT !.running_app = r.vim], out |-> r.out,
     end |-> FALSE, fault |-> r.fault]

\* DataByte with the shell, too, given the bytes an app is given.
DataByteBothModes(s, byte) ==
    IF s.running_app = NoApp THEN ShellByte(s, Process(s.shell, byte))
    ELSE IF byte = ETX THEN Quit([s EXCEPT !.running_app = NoApp])
    ELSE AppByte([s EXCEPT !.shell = Process(s.shell, byte).shell],
                 VimData(s.running_app, byte))

\* One turn of data's loop, for one byte: out is what it adds to response.
DataByte(s, byte) ==
    IF s.running_app = NoApp THEN ShellByte(s, Process(s.shell, byte))
    ELSE IF byte = ETX THEN Quit([s EXCEPT !.running_app = NoApp])
    ELSE AppByte(s, VimData(s.running_app, byte))

\* window_change_request
WindowChange(s, width, height) ==
    IF s.running_app = NoApp
    THEN Ran([s EXCEPT !.term_size = <<width, height>>], <<>>)
    ELSE AppByte([s EXCEPT !.term_size = <<width, height>>],
                 VimResize(s.running_app, width, height))

\* pty_request
PtyRequest(s, width, height) ==
    LET s1 == [s EXCEPT !.term_size = <<width, height>>]
    IN  Ran(s1, WelcomeMessage \o Prompt(s1))

(***************************************************************************)
(* An ideal terminal: a printable byte writes a cell and advances the      *)
(* cursor, BS and ESC[D move one cell left, ESC[C one cell right, CR       *)
(* returns to the first column and LF starts a fresh row.  Columns are     *)
(* counted from the first cell after the prompt; a blank cell shows as a   *)
(* space.                                                                  *)
(***************************************************************************)
TtyInit == [cells |-> <<>>, col |-> 0, esc |-> <<>>]

TtyWrite(cells, col, b) ==
    IF col < 0 THEN cells
    ELSE [i \in 1..(IF col + 1 > Len(cells) THEN col + 1 ELSE Len(cells)) |->
             IF i = col + 1 THEN b ELSE IF i <= Len(cells) THEN cells[i] ELSE SP]

TtyByte(t, b) ==
    IF t.esc # <<>>
    THEN LET e == Append(t.esc, b)
         IN  IF Len(e) < 3 THEN [t EXCEPT !.esc = e]
             ELSE IF e = <<27, 91, 68>> THEN [t EXCEPT !.esc = <<>>, !.col = @ - 1]
             ELSE IF e = <<27, 91, 67>> THEN [t EXCEPT !.esc = <<>>, !.col = @ + 1]
             ELSE [t EXCEPT !.esc = <<>>]
    ELSE CASE b = ESC -> [t EXCEPT !.esc = <<ESC>>]
           [] b = BS  -> [t EXCEPT !.col = @ - 1]
           [] b = CR  -> [t EXCEPT !.col = 0]
           [] b = LF  -> [t EXCEPT !.cells = <<>>]
           [] b >= 32 -> [t EXCEPT !.cells = TtyWrite(t.cells, t.col, b),
                                   !.col = @ + 1]
           [] OTHER   -> t

RECURSIVE TtyFeed(_, _)
TtyFeed(t, bytes) ==
    IF bytes = <<>> THEN t ELSE TtyFeed(TtyByte(t, Head(bytes)), Tail(bytes))

\* What the eye sees of a row: its text without trailing blanks.
RECURSIVE Visible(_)
Visible(s) ==
    IF s # <<>> /\ s[Len(s)] = SP THEN Visible(SubSeq(s, 1, Len(s) - 1)) ELSE s

InSync(sh, t) ==
    /\ Visible(t.cells) = Visible(CurrentLine(sh))
    /\ t.col = sh.cursor

(***************************************************************************)
(* Bounds                                                                  *)
(***************************************************************************)
MaxLine == 2
MaxHist == 2
MaxFeed == 10
MaxCols == 3
MaxRows == 3
MaxCmds == 2
Timeout == 2
MaxParts == 3
MaxPresses == 3
MaxConns == 2
MaxReloads == 2

\* The bytes fed to a shell on its own: every arm of process, two letters
\* and one byte above 127; after ESC, the arrows and two unrecognised bytes.
ShellKeys == {CR, LF, BS, DEL, ETX, EOT, SOH, ENQ, ESC, BEL, 97, 98, 200}
EscapeKeys(escape) ==
    IF Len(escape) = 1 THEN {91, CR, ETX} ELSE {65, 66, 67, 68, 97, LF, EOT}

\* Terminal sizes a client announces.
Cols == 1..MaxCols
Rows == 1..MaxRows

\* "u"
Users == {<<117>>}

\* "vi home.txt\r", "vi themes.txt\r"
ViHome == <<118, 105, 32, 104, 111, 109, 101, 46, 116, 120, 116, 13>>
ViThemes == <<118, 105, 32, 116, 104, 101, 109, 101, 115, 46, 116, 120, 116, 13>>

\* h, j, k, l, $
MoveKeys == {104, 106, 107, 108, 36}

\* "vi\r", "vi zz\r", "cd blog\r"
ViAlone == <<118, 105, 13>>
ViMissing == <<118, 105, 32, 122, 122, 13>>
CdBlog == <<99, 100, 32, 98, 108, 111, 103, 13>>

(***************************************************************************)
(* The process (main.rs) and the SSH service's main (mod.rs)               *)
(***************************************************************************)
\* What Content::load reads once the content directory has changed n times:
\* the home page has grown by a '!' with each change.
SiteAt(n) == [Site EXCEPT !.home = @ \o Repeat(33, n)]

\* main.rs loads CONTENT, then ssh::main builds its snapshot from it.
ServerInit ==
    [content |-> 0, signals |-> 0, snapshot |-> SshContentNew(SiteAt(0)),
     conns |-> <<>>]

(***************************************************************************)
(* The state after main has accepted a connection and spawned its tasks    *)
(***************************************************************************)
vars == <<session, stage, handler, pending, response, fault, oneshot, notify,
          sup, quiet, last, tty, fed, server>>

Did(op) == [op |-> op, byte |-> 0, pager |-> FALSE]

Init ==
    /\ session = SessionNew
    /\ stage = "accepted"
    /\ handler = "idle"
    /\ pending = <<>>
    /\ response = <<>>
    /\ fault = "none"
    /\ oneshot = "empty"
    /\ notify = 0
    /\ sup = [pc |-> "await_channel", sleep |-> 0, fired |-> FALSE, closes |-> 0]
    /\ quiet = [recv |-> 0, data |-> 0, late |-> FALSE]
    /\ last = Did("accept")
    /\ tty = TtyInit
    /\ fed = 0
    /\ server = ServerInit

\* The session task is running callbacks: it has not ended, panicked or hung.
Alive == stage # "ended" /\ fault = "none"

\* The server's process is running: no allocation has failed.
ProcessUp == fault # "abort"

\* The session task is over, and the SshSession with its senders dropped.
SenderGone == stage = "ended" \/ fault = "panic"

\* The timeout task has returned from resetting_timeout (dropping the
\* receiver) or from the task.
ReceiverGone == sup.pc \in {"closing", "done"}

\* An overflow panics or wraps, by the build; wrapped, the loop it is in
\* does not end, or, in move_cursor, the callback goes on ("none"), or
\* render uses the memory up ("abort"): for certain at usize::MAX rows, and
\* from 65536 rows on if the machine has no room for them.
Outcomes(kind) ==
    CASE kind = "overflow" -> {"panic", "hang"}
      [] kind = "wraps" -> {"panic", "none"}
      [] kind = "overdraws" -> {"panic", "none", "abort"}
      [] kind = "exhausts" -> {"panic", "abort"}
      [] OTHER -> {kind}

sessionVars == <<session, stage, handler, pending, response, fault, last>>
supVars == <<oneshot, notify, sup, quiet>>

(***************************************************************************)
(* The shell fed one byte at a time                                        *)
(***************************************************************************)
\* The bytes the bounds admit in the shell's present state.
Admitted(sh, data) ==
    /\ IF sh.escape # <<>> THEN data \in EscapeKeys(sh.escape)
                           ELSE data \in ShellKeys
    /\ sh.escape = <<>> /\ data >= 32 /\ data # DEL
          => Len(CurrentLine(sh)) < MaxLine
    /\ sh.escape = <<>> /\ data \in {CR, LF} => Len(sh.history) < MaxHist

\* What the shell's result r does to the task feeding it.
Fed(r) ==
    IF r.panic
    THEN /\ fault' = "panic"
         /\ UNCHANGED session
    ELSE /\ session' = [session EXCEPT !.shell = r.shell]
         /\ UNCHANGED fault

Feed(data) ==
    /\ fault = "none"
    /\ fed < MaxFeed
    /\ fed' = fed + 1
    /\ Admitted(session.shell, data)
    /\ last' = [op |-> "byte", byte |-> data, pager |-> FALSE]
    /\ Fed(Process(session.shell, data))
    /\ UNCHANGED <<stage, handler, pending, response, tty, server>>
    /\ UNCHANGED supVars

\* The same, with the returned bytes sent to the terminal; the terminal is
\* followed until it first disagrees with the shell.
FeedTty(data) ==
    /\ fault = "none"
    /\ InSync(session.shell, tty)
    /\ fed < MaxFeed
    /\ fed' = fed + 1
    /\ Admitted(session.shell, data)
    /\ last' = [op |-> "byte", byte |-> data, pager |-> FALSE]
    /\ Fed(Process(session.shell, data))
    /\ tty' = IF fault' = "none" THEN TtyFeed(tty, Process(session.shell, data).out)
              ELSE tty
    /\ UNCHANGED <<stage, handler, pending, response, server>>
    /\ UNCHANGED supVars

NextShell == \E data \in ShellKeys \cup {91, 65, 66, 67, 68} : Feed(data)

SpecShell == Init /\ [][NextShell]_vars

NextTty == \E data \in ShellKeys \cup {91, 65, 66, 67, 68} : FeedTty(data)

SpecTty == Init /\ [][NextTty]_vars

\* The shell after the lines "a" and "b" have been submitted, fed one byte
\* at a time.
InitHistory ==
    /\ session = [SessionNew EXCEPT !.shell.history = <<<<97>>, <<98>>>>]
    /\ stage = "accepted"
    /\ handler = "idle"
    /\ pending = <<>>
    /\ response = <<>>
    /\ fault = "none"
    /\ oneshot = "empty"
    /\ notify = 0
    /\ sup = [pc |-> "await_channel", sleep |-> 0, fired |-> FALSE, closes |-> 0]
    /\ quiet = [recv |-> 0, data |-> 0, late |-> FALSE]
    /\ last = Did("accept")
    /\ tty = TtyInit
    /\ fed = 0
    /\ server = ServerInit

SpecHistory == InitHistory /\ [][NextShell]_vars

(***************************************************************************)
(* The session task's callbacks (session.rs)                               *)
(***************************************************************************)
Auth(user) ==
    /\ Alive /\ stage = "accepted"
    /\ session' = [session EXCEPT !.username = user]
    /\ stage' = "authed"
    /\ last' = Did("auth")
    /\ UNCHANGED <<handler, pending, response, fault, tty, fed, server>>
    /\ UNCHANGED supVars

\* channel_open_session handing the channel over on every request.
ChannelOpenAlwaysHandsOff ==
    /\ Alive /\ stage \in {"authed", "open"} /\ handler = "idle"
    /\ last' = [op |-> "channel_open", byte |-> 0, pager |-> FALSE,
                accepted |-> TRUE]
    /\ session' = [session EXCEPT !.channel_tx = FALSE]
    /\ oneshot' = "sent"
    /\ stage' = "open"
    /\ UNCHANGED <<handler, pending, response, fault, notify, sup, quiet, tty, fed, server>>

\* channel_open_session: the first request hands the channel to the timeout
\* task and is accepted, a later one is refused; last.accepted is the answer.
ChannelOpen ==
    /\ Alive /\ stage \in {"authed", "open"} /\ handler = "idle"
    /\ last' = [op |-> "channel_open", byte |-> 0, pager |-> FALSE,
                accepted |-> session.channel_tx]
    /\ IF session.channel_tx
       THEN /\ session' = [session EXCEPT !.channel_tx = FALSE]
            /\ oneshot' = "sent"
            /\ stage' = "open"
       ELSE UNCHANGED <<session, oneshot, stage>>
    /\ UNCHANGED <<handler, pending, response, fault, notify, sup, quiet, tty, fed, server>>

\* What a callback that answers at once does to the session task.
Answer(r) ==
    \E outcome \in Outcomes(r.fault) :
        IF outcome # "none"
        THEN /\ fault' = outcome
             /\ UNCHANGED <<session, response>>
        ELSE /\ session' = r.sess
             /\ response' = r.out
             /\ UNCHANGED fault

Pty(width, height) ==
    /\ Alive /\ stage = "open" /\ handler = "idle"
    /\ last' = Did("pty")
    /\ Answer(PtyRequest(session, width, height))
    /\ UNCHANGED <<stage, handler, pending, tty, fed, server>>
    /\ UNCHANGED supVars

Resize(width, height) ==
    /\ Alive /\ stage = "open" /\ handler = "idle"
    /\ last' = Did("resize")
    /\ Answer(WindowChange(session, width, height))
    /\ UNCHANGED <<stage, handler, pending, tty, fed, server>>
    /\ UNCHANGED supVars

\* data, up to its send: the notification is queued if the channel has room,
\* the callback is suspended if it is full, and fails if the receiver is gone.
DataBegin(data) ==
    /\ Alive /\ stage = "open" /\ handler = "idle"
    /\ last' = Did("data")
    /\ response' = <<>>
    /\ quiet' = [quiet EXCEPT !.data = 0,
                              !.late = @ \/ quiet.data >= Timeout]
    /\ IF ReceiverGone
       THEN /\ stage' = "ended"
            /\ UNCHANGED <<handler, notify, pending>>
       ELSE IF notify < 1
       THEN /\ notify' = notify + 1
            /\ handler' = IF data = <<>> THEN "idle" ELSE "bytes"
            /\ pending' = data
            /\ UNCHANGED stage
       ELSE /\ handler' = "blocked"
            /\ pending' = data
            /\ UNCHANGED <<stage, notify>>
    /\ UNCHANGED <<session, fault, oneshot, sup, tty, fed, server>>

\* The suspended send completes once the channel has room, or fails.
DataResume ==
    /\ Alive /\ handler = "blocked"
    /\ IF ReceiverGone
       THEN /\ stage' = "ended"
            /\ handler' = "idle"
            /\ UNCHANGED notify
       ELSE /\ notify < 1
            /\ notify' = notify + 1
            /\ handler' = IF pending = <<>> THEN "idle" ELSE "bytes"
            /\ UNCHANGED stage
    /\ UNCHANGED <<session, pending, response, fault, last, oneshot, sup, quiet,
                   tty, fed, server>>

\* What one turn of data's loop, with result r, does to the session task.
Advance(r) ==
    \E outcome \in Outcomes(r.fault) :
        IF outcome # "none"
        THEN /\ fault' = outcome
             /\ UNCHANGED <<session, stage, handler, pending, response>>
        ELSE IF r.end
        THEN /\ session' = r.sess
             /\ stage' = "ended"
             /\ handler' = "idle"
             /\ pending' = <<>>
             /\ response' = <<>>
             /\ UNCHANGED fault
        ELSE /\ session' = r.sess
             /\ response' = response \o r.out
             /\ pending' = Tail(pending)
             /\ handler' = IF Tail(pending) = <<>> THEN "idle" ELSE "bytes"
             /\ UNCHANGED <<stage, fault>>

\* data's loop, one byte; after the last byte the response is sent.  On exit
\* or logout the callback returns at once, its response unsent.
DataStep ==
    /\ Alive /\ handler = "bytes" /\ pending # <<>>
    /\ last' = [op |-> "byte", byte |-> Head(pending),
                pager |-> session.running_app # NoApp]
    /\ Advance(DataByte(session, Head(pending)))
    /\ UNCHANGED <<tty, fed, server>>
    /\ UNCHANGED supVars

\* The client goes away, or setting the connection up fails.
SessionEnd ==
    /\ Alive /\ handler # "bytes"
    /\ stage' = "ended"
    /\ handler' = "idle"
    /\ last' = Did("end")
    /\ UNCHANGED <<session, pending, response, fault, tty, fed, server>>
    /\ UNCHANGED supVars

(***************************************************************************)
(* The timeout task (mod.rs)                                               *)
(***************************************************************************)
\* channel_rx.await yields the channel; resetting_timeout starts its sleep.
SupChannel ==
    /\ ProcessUp
    /\ sup.pc = "await_channel" /\ oneshot = "sent"
    /\ oneshot' = "taken"
    /\ sup' = [sup EXCEPT !.pc = "select", !.sleep = 0]
    /\ quiet' = [recv |-> 0, data |-> 0, late |-> FALSE]
    /\ UNCHANGED notify
    /\ UNCHANGED <<sessionVars, tty, fed, server>>

\* channel_rx.await fails, the sender dropped unused: the task returns.
SupNoChannel ==
    /\ ProcessUp
    /\ sup.pc = "await_channel" /\ oneshot = "empty" /\ SenderGone
    /\ oneshot' = "closed"
    /\ sup' = [sup EXCEPT !.pc = "done"]
    /\ UNCHANGED <<notify, quiet>>
    /\ UNCHANGED <<sessionVars, tty, fed, server>>

\* reset_signal.recv() yields a notification: the loop starts a new sleep.
SupRecv ==
    /\ ProcessUp
    /\ sup.pc = "select" /\ notify > 0
    /\ notify' = notify - 1
    /\ sup' = [sup EXCEPT !.sleep = 0]
    /\ quiet' = [quiet EXCEPT !.recv = 0]
    /\ UNCHANGED oneshot
    /\ UNCHANGED <<sessionVars, tty, fed, server>>

\* reset_signal.recv() yields None, the channel empty and its sender
\* dropped: resetting_timeout returns false and the task returns.
SupClosed ==
    /\ ProcessUp
    /\ sup.pc = "select" /\ notify = 0 /\ SenderGone
    /\ sup' = [sup EXCEPT !.pc = "done"]
    /\ UNCHANGED <<oneshot, notify, quiet>>
    /\ UNCHANGED <<sessionVars, tty, fed, server>>

\* The sleep completes: resetting_timeout returns true.
SupFire ==
    /\ ProcessUp
    /\ sup.pc = "select" /\ sup.sleep >= Timeout
    /\ sup' = [sup EXCEPT !.pc = "closing", !.fired = TRUE]
    /\ UNCHANGED <<oneshot, notify, quiet>>
    /\ UNCHANGED <<sessionVars, tty, fed, server>>

\* channel.close()
SupClose ==
    /\ ProcessUp
    /\ sup.pc = "closing"
    /\ sup' = [sup EXCEPT !.pc = "done", !.closes = @ + 1]
    /\ UNCHANGED <<oneshot, notify, quiet>>
    /\ UNCHANGED <<sessionVars, tty, fed, server>>

(***************************************************************************)
(* Time.  The clock moves whatever the tasks do: a task that is ready is   *)
(* polled when the runtime gets to it, and resetting_timeout's select!,    *)
(* which is not biased, takes either branch when the sleep has completed   *)
(* and a notification, or the channel's closing, is there to be received.  *)
(***************************************************************************)
Later(n) == IF n < Timeout THEN n + 1 ELSE n

Tick ==
    /\ ProcessUp
    /\ \/ sup.pc = "select" /\ sup.sleep < Timeout
       \/ quiet.recv < Timeout
       \/ quiet.data < Timeout
    /\ sup' = [sup EXCEPT !.sleep = IF sup.pc = "select" THEN Later(@) ELSE @]
    /\ quiet' = [quiet EXCEPT !.recv = Later(@), !.data = Later(@)]
    /\ UNCHANGED <<oneshot, notify>>
    /\ UNCHANGED <<sessionVars, tty, fed, server>>

(***************************************************************************)
(* A client that opens a page in the pager and moves about in it           *)
(***************************************************************************)
InPager == session.running_app # NoApp

\* A whole command line arrives at an empty prompt.
Command(line) ==
    /\ ~InPager
    /\ CurrentLine(session.shell) = <<>>
    /\ session.shell.escape = <<>>
    /\ Len(session.shell.history) < MaxCmds
    /\ DataBegin(line)

\* A key arrives while the pager runs.
Key(byte) ==
    /\ InPager
    /\ DataBegin(<<byte>>)

NextVim ==
    \/ \E user \in Users : Auth(user)
    \/ ChannelOpen
    \/ \E width \in Cols, height \in Rows : ~InPager /\ Pty(width, height)
    \/ \E width \in Cols, height \in Rows : Resize(width, height)
    \/ \E line \in {ViHome, ViThemes} : Command(line)
    \/ \E byte \in MoveKeys : Key(byte)
    \/ DataResume
    \/ DataStep
    \/ SupChannel
    \/ SupRecv

SpecVim == Init /\ [][NextVim]_vars

(***************************************************************************)
(* A client that runs commands, opens the pager and leaves it              *)
(***************************************************************************)
\* Several bytes arrive at once while the pager runs.
Keys(data) ==
    /\ InPager
    /\ DataBegin(data)

\* A byte is typed at the prompt.
Typed(byte) ==
    /\ ~InPager
    /\ session.shell.escape = <<>>
    /\ byte >= 32 => Len(CurrentLine(session.shell)) < MaxLine
    /\ byte \in {CR, LF} => Len(session.shell.history) < MaxCmds
    /\ DataBegin(<<byte>>)

\* The sizes a client of this kind announces.
Sizes == {<<MaxCols, MaxRows>>, <<MaxCols - 1, MaxRows - 1>>}

NextSession ==
    \/ \E user \in Users : Auth(user)
    \/ ChannelOpen
    \/ \E size \in Sizes : Pty(size[1], size[2])
    \/ \E size \in Sizes : Resize(size[1], size[2])
    \/ \E line \in {ViHome, ViAlone, ViMissing, CdBlog} : Command(line)
    \/ \E byte \in {106, CR, ETX} : Typed(byte)
    \/ \E data \in {<<ETX>>, <<106>>, <<105>>, <<ETX, 106>>} : Keys(data)
    \/ DataResume
    \/ DataStep
    \/ SessionEnd
    \/ SupChannel
    \/ SupRecv

SpecSession == Init /\ [][NextSession]_vars

(***************************************************************************)
(* A connection and its timeout task.  The tasks' own steps and the clock  *)
(* are fair: the runtime polls a task that is ready, and time passes.      *)
(* Nothing obliges the client to do anything.                              *)
(***************************************************************************)
NextTimeout ==
    \/ \E user \in Users : Auth(user)
    \/ ChannelOpen
    \/ \E data \in {<<BEL>>, <<EOT>>} : DataBegin(data)
    \/ DataResume
    \/ DataStep
    \/ SessionEnd
    \/ SupChannel
    \/ SupNoChannel
    \/ SupRecv
    \/ SupClosed
    \/ SupFire
    \/ SupClose
    \/ Tick

SpecTimeout ==
    /\ Init
    /\ [][NextTimeout]_vars
    /\ WF_vars(DataResume)
    /\ WF_vars(DataStep)
    /\ WF_vars(SupChannel)
    /\ WF_vars(SupNoChannel)
    /\ WF_vars(SupRecv)
    /\ WF_vars(SupClosed)
    /\ WF_vars(SupFire)
    /\ WF_vars(SupClose)
    /\ WF_vars(Tick)

(***************************************************************************)
(* The content directory changes while the SSH service accepts connections *)
(***************************************************************************)
\* watch_content's callback: CONTENT is loaded anew and a message broadcast.
\* The channel keeps one message; ssh::main holds its receiver and never
\* receives from it.
\* Reload handing the new content to the live session, too.
ReloadReplacesSnapshot ==
    /\ ProcessUp
    /\ server.content < MaxReloads
    /\ server' = [server EXCEPT !.content = @ + 1, !.signals = 1]
    /\ session' = [session EXCEPT
                      !.content = SshContentNew(SiteAt(server.content + 1))]
    /\ UNCHANGED <<stage, handler, pending, response, fault, last, tty, fed>>
    /\ UNCHANGED supVars

Reload ==
    /\ ProcessUp
    /\ server.content < MaxReloads
    /\ server' = [server EXCEPT !.content = @ + 1, !.signals = 1]
    /\ UNCHANGED <<sessionVars, supVars, tty, fed>>

\* One turn of the accept loop: the new connection's SshSession is given a
\* clone of the Arc main holds.
Accept ==
    /\ ProcessUp
    /\ Len(server.conns) < MaxConns
    /\ server' = [server EXCEPT !.conns =
                      Append(@, [content |-> server.snapshot, open |-> TRUE])]
    /\ UNCHANGED <<sessionVars, supVars, tty, fed>>

\* The task of connection i ends.
Closed(i) ==
    /\ ProcessUp
    /\ server.conns[i].open
    /\ server' = [server EXCEPT !.conns[i].open = FALSE]
    /\ UNCHANGED <<sessionVars, supVars, tty, fed>>

NextReload ==
    \/ Reload
    \/ Accept
    \/ \E i \in 1..Len(server.conns) : Closed(i)
    \/ \E user \in Users : Auth(user)
    \/ ChannelOpen
    \/ SessionEnd

SpecReload == Init /\ [][NextReload]_vars

(***************************************************************************)
(* A client that sends whole command lines                                 *)
(***************************************************************************)
\* "cd zz\r", "cat\r", "cat zz\r", "cd blog\r", "zz a\r", "msg send hi\r",
\* "msg view 1\r", "msg reply 1 hi\r", "vi home.txt\r", "exit\r", "ls\r",
\* "\r", "j" and Ctrl-C, " j\r", "help\r", "cat /home.txt\r", "vi\r",
\* "cd ..\r", "cd /blog\r"
CommandLines ==
    {<<99, 100, 32, 122, 122, 13>>,
     <<99, 97, 116, 13>>,
     <<99, 97, 116, 32, 122, 122, 13>>,
     CdBlog,
     <<122, 122, 32, 97, 13>>,
     <<109, 115, 103, 32, 115, 101, 110, 100, 32, 104, 105, 13>>,
     <<109, 115, 103, 32, 118, 105, 101, 119, 32, 49, 13>>,
     <<109, 115, 103, 32, 114, 101, 112, 108, 121, 32, 49, 32, 104, 105, 13>>,
     ViHome,
     <<101, 120, 105, 116, 13>>,
     <<108, 115, 13>>,
     <<13>>,
     <<106, 3>>,
     <<32, 106, 13>>,
     <<104, 101, 108, 112, 13>>,
     <<99, 97, 116, 32, 47, 104, 111, 109, 101, 46, 116, 120, 116, 13>>,
     ViAlone,
     <<99, 100, 32, 46, 46, 13>>,
     <<99, 100, 32, 47, 98, 108, 111, 103, 13>>}

NextCommands ==
    \/ \E user \in Users : Auth(user)
    \/ ChannelOpen
    \/ Reload
    \/ \E line \in CommandLines : Command(line)
    \/ Keys(<<ETX>>)
    \/ DataResume
    \/ DataStep
    \/ SupChannel
    \/ SupRecv

SpecCommands == Init /\ [][NextCommands]_vars

(***************************************************************************)
(* Paths given to dir_at and get_file                                      *)
(***************************************************************************)
\* The segments paths are made of: "", ".", "..", "blog", "projects",
\* "home.txt", "p.txt" and "zz", which names nothing.
PathParts ==
    {<<>>, <<Dot>>, <<Dot, Dot>>, BlogName, ProjectsName, HomeTxt,
     <<112, 46, 116, 120, 116>>, <<122, 122>>}

\* A session in any directory of the snapshot, no path built yet.
InitPaths ==
    /\ session \in {[SessionNew EXCEPT !.current_dir = d] :
                        d \in 0..(Len(Content) - 1)}
    /\ stage = "open"
    /\ handler = "idle"
    /\ pending = <<>>
    /\ response = <<>>
    /\ fault = "none"
    /\ oneshot = "empty"
    /\ notify = 0
    /\ sup = [pc |-> "await_channel", sleep |-> 0, fired |-> FALSE, closes |-> 0]
    /\ quiet = [recv |-> 0, data |-> 0, late |-> FALSE]
    /\ last = [op |-> "path", byte |-> DirAt(Content, <<>>), pager |-> FALSE]
    /\ tty = TtyInit
    /\ fed = 0
    /\ server = ServerInit

\* The path (kept in pending) grows by one segment, and dir_at and get_file
\* are applied to it: last.byte is the directory dir_at returns, response
\* the contents of the file get_file returns from the session's directory.
PathGrow(part) ==
    /\ fed < MaxParts
    /\ fed' = fed + 1
    /\ pending' = IF fed = 0 THEN part ELSE pending \o <<Slash>> \o part
    /\ last' = [op |-> "path", byte |-> DirAt(Content, pending'), pager |-> FALSE]
    /\ response' = GetFile(Content, session.current_dir, pending').contents
    /\ UNCHANGED <<session, stage, handler, fault, tty, server>>
    /\ UNCHANGED supVars

NextPaths == \E part \in PathParts : PathGrow(part)

SpecPaths == InitPaths /\ [][NextPaths]_vars

(***************************************************************************)
(* watch_path: the task that reruns a callback when the content changes    *)
(***************************************************************************)
\* Capacity of the channel the watcher's events arrive on.
ChannelCapacity == 4

\* Seconds from the receive to stop_retrying_time.
StopRetrying == 1

\* Filesystem events in a run, and polls the callback needs to complete.
MaxEvents == 4
CallbackPolls == 2

\* The task before its first event.  pc is where it waits: "recv" at the
\* outer rx.recv().await, "select" in the select! that runs the callback.
\* elapsed counts the seconds since stop_retrying_time was set, armed is
\* the receive arm's precondition as the select! found it, polls the polls
\* the running callback has had, began the events that had been sent when
\* on_change() was called, loaded the same count for the last callback that
\* ran to its end.
WatchNew ==
    [pc |-> "recv", elapsed |-> 0, armed |-> FALSE, polls |-> 0, began |-> 0,
     loaded |-> 0]

\* fed counts the events sent, pending is the channel.
InitWatch ==
    /\ session = SessionNew
    /\ stage = "accepted"
    /\ handler = "idle"
    /\ pending = <<>>
    /\ response = <<>>
    /\ fault = "none"
    /\ oneshot = "empty"
    /\ notify = 0
    /\ sup = [pc |-> "await_channel", sleep |-> 0, fired |-> FALSE, closes |-> 0]
    /\ quiet = [recv |-> 0, data |-> 0, late |-> FALSE]
    /\ last = Did("watch")
    /\ tty = TtyInit
    /\ fed = 0
    /\ server = WatchNew

\* The watcher's thread sends an event; blocking_send waits while the
\* channel is full.
Change ==
    /\ fed < MaxEvents
    /\ Len(pending) < ChannelCapacity
    /\ fed' = fed + 1
    /\ pending' = Append(pending, fed + 1)
    /\ last' = Did("change")
    /\ UNCHANGED <<session, stage, handler, response, fault, tty, server>>
    /\ UNCHANGED supVars

\* The outer loop receives an event, flushes the channel, sets
\* stop_retrying_time and enters the select! with a new callback.  The
\* select! evaluates the receive arm's precondition once, on entry, which is
\* when no time has passed since stop_retrying_time was set.
WatchRecv ==
    /\ server.pc = "recv"
    /\ pending # <<>>
    /\ pending' = <<>>
    /\ server' = [server EXCEPT !.pc = "select", !.elapsed = 0,
                                !.armed = 0 < StopRetrying,
                                !.polls = 0, !.began = fed]
    /\ last' = Did("recv")
    /\ UNCHANGED <<session, stage, handler, response, fault, tty, fed>>
    /\ UNCHANGED supVars

\* A second passes while the callback runs.
WatchTick ==
    /\ server.pc = "select"
    /\ server.elapsed < StopRetrying
    /\ server' = [server EXCEPT !.elapsed = @ + 1]
    /\ last' = Did("tick")
    /\ UNCHANGED <<session, stage, handler, pending, response, fault, tty, fed>>
    /\ UNCHANGED supVars

\* The select! is polled, the receive first (biased) if its precondition
\* held on entry: an event, before stop_retrying_time or after it, drops the
\* callback and breaks out of the inner loop; otherwise the callback is
\* polled, and breaks out when it is done.
WatchPoll ==
    /\ server.pc = "select"
    /\ IF pending # <<>> /\ server.armed
       THEN /\ pending' = Tail(pending)
            /\ server' = [server EXCEPT !.pc = "recv", !.polls = 0]
            /\ last' = Did("reset")
       ELSE /\ pending' = pending
            /\ IF server.polls + 1 = CallbackPolls
               THEN /\ server' = [server EXCEPT !.pc = "recv", !.polls = 0,
                                                !.loaded = server.began]
                    /\ last' = Did("done")
               ELSE /\ server' = [server EXCEPT !.polls = @ + 1]
                    /\ last' = Did("poll")
    /\ UNCHANGED <<session, stage, handler, response, fault, tty, fed>>
    /\ UNCHANGED supVars

NextWatch == Change \/ WatchRecv \/ WatchTick \/ WatchPoll

SpecWatch == InitWatch /\ [][NextWatch]_vars

(***************************************************************************)
(* contact: threads of messages and their unread counts                    *)
(***************************************************************************)
Colon == 58

\* CONFIG.msg_max_unread_messages, msg_max_unread_threads_global and
\* msg_max_unread_threads_ip of the run, and the threads a run creates.
MsgMaxUnreadMessages == 2
MsgMaxUnreadThreadsGlobal == 3
MsgMaxUnreadThreadsIp == 1
MaxThreads == 3

\* Peer addresses: "7" and "8" as hosts, two source ports.
Hosts == {<<55>>, <<56>>}
Ports == {22, 501}
Addrs == [ip : Hosts, port : Ports]

\* SocketAddr's Display: the host, a colon, the port in decimal.
AddrToString(addr) == addr.ip \o <<Colon>> \o Decimal(addr.port)

\* SELECT COUNT(*) FROM threads WHERE (unread > 0)
UnreadThreadCount(threads) ==
    Cardinality({i \in DOMAIN threads : threads[i].unread > 0})

\* SELECT COUNT(*) FROM threads WHERE (unread > 0 AND source_ip = ?1)
UnreadThreadCountIp(threads, ip) ==
    Cardinality({i \in DOMAIN threads :
                    threads[i].unread > 0 /\ threads[i].source_ip = ip})

\* The two rate checks made inside each write transaction.
InboxFull(threads, ip) ==
    \/ UnreadThreadCount(threads) >= MsgMaxUnreadThreadsGlobal
    \/ UnreadThreadCountIp(threads, ip) >= MsgMaxUnreadThreadsIp

\* The empty database; server.threads is the threads table, a thread's id
\* its index.
InitContact ==
    /\ session = SessionNew
    /\ stage = "accepted"
    /\ handler = "idle"
    /\ pending = <<>>
    /\ response = <<>>
    /\ fault = "none"
    /\ oneshot = "empty"
    /\ notify = 0
    /\ sup = [pc |-> "await_channel", sleep |-> 0, fired |-> FALSE, closes |-> 0]
    /\ quiet = [recv |-> 0, data |-> 0, late |-> FALSE]
    /\ last = Did("open")
    /\ tty = TtyInit
    /\ fed = 0
    /\ server = [threads |-> <<>>]

\* create_thread from a peer address: the checks, then the thread's row and
\* its first message (the insert trigger counts it as unread).
CreateThread(addr) ==
    /\ Len(server.threads) < MaxThreads
    /\ IF InboxFull(server.threads, AddrToString(addr))
       THEN /\ last' = Did("InboxFull")
            /\ UNCHANGED server
       ELSE /\ last' = Did("created")
            /\ server' = [threads |-> Append(server.threads,
                             [source_ip |-> AddrToString(addr), unread |-> 1])]
    /\ UNCHANGED <<session, stage, handler, pending, response, fault, tty, fed>>
    /\ UNCHANGED supVars

\* send_message on a thread id: the thread must exist and hold fewer unread
\* messages than the limit, then the same two checks with the stored address.
SendMessage(id) ==
    /\ IF id \notin DOMAIN server.threads
       THEN last' = Did("NoSuchThread") /\ UNCHANGED server
       ELSE IF server.threads[id].unread >= MsgMaxUnreadMessages
       THEN last' = Did("ThreadFull") /\ UNCHANGED server
       ELSE IF InboxFull(server.threads, server.threads[id].source_ip)
       THEN last' = Did("InboxFull") /\ UNCHANGED server
       ELSE /\ last' = Did("sent")
            /\ server' = [server EXCEPT !.threads[id].unread = @ + 1]
    /\ UNCHANGED <<session, stage, handler, pending, response, fault, tty, fed>>
    /\ UNCHANGED supVars

\* A response is inserted on a thread: the unread_reset trigger.
Respond(id) ==
    /\ id \in DOMAIN server.threads
    /\ server.threads[id].unread > 0
    /\ server' = [server EXCEPT !.threads[id].unread = 0]
    /\ last' = Did("response")
    /\ UNCHANGED <<session, stage, handler, pending, response, fault, tty, fed>>
    /\ UNCHANGED supVars

NextContact ==
    \/ \E addr \in Addrs : CreateThread(addr)
    \/ \E id \in 1..(MaxThreads + 1) : SendMessage(id)
    \/ \E id \in 1..MaxThreads : Respond(id)

SpecContact == InitContact /\ [][NextContact]_vars

(***************************************************************************)
(* POP3 (pop3.rs)                                                          *)
(***************************************************************************)
Plus == 43
NoNumber == -1

\* Lines a connection reads before it is left alone.
MaxPop3Lines == 4

\* line.split_whitespace(), for lines whose only white space is spaces.
SplitWhitespace(line) == SelectSeq(Split(line, SP), LAMBDA w : w # <<>>)

RECURSIVE DigitsValue(_)
DigitsValue(w) ==
    IF w = <<>> THEN 0
    ELSE 10 * DigitsValue(SubSeq(w, 1, Len(w) - 1)) + (w[Len(w)] - 48)

\* s.parse::<usize>().ok(): decimal digits after an optional '+', for words
\* short enough to stay in range; NoNumber is None.
ParseUsize(w) ==
    IF /\ w # <<>> /\ w[1] = Plus /\ Len(w) > 1
       /\ \A i \in 2..Len(w) : w[i] >= 48 /\ w[i] <= 57
    THEN DigitsValue(Tail(w))
    ELSE IF w # <<>> /\ \A i \in 1..Len(w) : w[i] >= 48 /\ w[i] <= 57
    THEN DigitsValue(w)
    ELSE NoNumber

\* Pop3Command::new: the verb and, for LIST and RETR, the number parsed
\* from the next word (RETR's defaults to 0).
Pop3CommandNew(line) ==
    LET split == SplitWhitespace(line)
        verb == IF split = <<>> THEN <<>> ELSE split[1]
        number == IF Len(split) < 2 THEN NoNumber ELSE ParseUsize(split[2])
    IN  IF verb = <<85, 83, 69, 82>> THEN [cmd |-> "User", i |-> NoNumber]
        ELSE IF verb = <<80, 65, 83, 83>> THEN [cmd |-> "Pass", i |-> NoNumber]
        ELSE IF verb = <<81, 85, 73, 84>> THEN [cmd |-> "Quit", i |-> NoNumber]
        ELSE IF verb = <<83, 84, 65, 84>> THEN [cmd |-> "Stat", i |-> NoNumber]
        ELSE IF verb = <<76, 73, 83, 84>> THEN [cmd |-> "List", i |-> number]
        ELSE IF verb = <<82, 69, 84, 82>>
        THEN [cmd |-> "Retr", i |-> IF number = NoNumber THEN 0 ELSE number]
        ELSE IF verb = <<78, 79, 79, 80>> THEN [cmd |-> "Noop", i |-> NoNumber]
        ELSE IF verb = <<82, 83, 69, 84>> THEN [cmd |-> "Rset", i |-> NoNumber]
        ELSE [cmd |-> "Invalid", i |-> NoNumber]

RECURSIVE Concat(_)
Concat(ss) == IF ss = <<>> THEN <<>> ELSE Head(ss) \o Concat(Tail(ss))

\* str::lines(), collected: the lines end at each LF, a CR right before
\* that LF is dropped with it, and what follows the last LF is a line
\* unless it is empty.
StrLines(page) ==
    LET parts == Split(page, LF)
        count == IF parts[Len(parts)] = <<>> THEN Len(parts) - 1 ELSE Len(parts)
    IN  [k \in 1..count |->
            IF k < Len(parts) /\ parts[k] # <<>> /\ parts[k][Len(parts[k])] = CR
            THEN SubSeq(parts[k], 1, Len(parts[k]) - 1)
            ELSE parts[k]]

\* One page as a message: each line ended by CR LF, a line that starts with
\* '.' stuffed with another; size is the bytes of the lines.
Pop3Message(page) ==
    LET stuffed == [k \in DOMAIN StrLines(page) |->
                       (IF StrLines(page)[k] # <<>> /\ StrLines(page)[k][1] = Dot
                        THEN <<Dot>> ELSE <<>>)
                       \o StrLines(page)[k] \o <<CR, LF>>]
    IN  [lines |-> stuffed, size |-> Len(Concat(stuffed))]

\* The site Pop3Content::from reads: one project, named "P", whose text
\* is ".x\r\ny\n".
Pop3Site ==
    [projects |-> << [name |-> <<80>>, text |-> <<46, 120, 13, 10, 121, 10>>] >>]

\* Pop3Content::from: the welcome page, then a page per project under its
\* "From: Fletch\nTo: You!\nSubject: {}\n\n" header; each page as a
\* message, and the sizes summed.
Pop3ContentFrom(content) ==
    LET welcome == <<
      70, 114, 111, 109, 58, 32, 70, 108, 101, 116, 99, 104, 10, 84, 111,
      58, 32, 89, 111, 117, 33, 10, 83, 117, 98, 106, 101, 99, 116, 58,
      32, 87, 101, 108, 99, 111, 109, 101, 33, 10, 10, 72, 101, 108, 108,
      111, 33, 32, 87, 101, 108, 99, 111, 109, 101, 32, 116, 111, 32, 109,
      121, 32, 119, 101, 98, 115, 105, 116, 101, 44, 32, 101, 120, 112,
      111, 115, 101, 100, 32, 118, 105, 97, 32, 97, 32, 80, 79, 80, 51,
      32, 109, 97, 105, 108, 32, 115, 101, 114, 118, 101, 114, 46, 32, 65,
      108, 108, 32, 116, 104, 101, 32, 112, 97, 103, 101, 115, 32, 115,
      104, 111, 117, 108, 100, 32, 98, 101, 32, 108, 105, 115, 116, 101,
      100, 32, 104, 101, 114, 101, 32, 97, 115, 32, 101, 109, 97, 105,
      108, 115, 44, 32, 115, 111, 32, 102, 101, 101, 108, 32, 102, 114,
      101, 101, 32, 116, 111, 32, 98, 114, 111, 119, 115, 101, 32, 97,
      114, 111, 117, 110, 100, 33>>
        header == <<
      70, 114, 111, 109, 58, 32, 70, 108, 101, 116, 99, 104, 10, 84, 111,
      58, 32, 89, 111, 117, 33, 10, 83, 117, 98, 106, 101, 99, 116, 58, 32>>
        pages == <<welcome>>
                 \o [k \in DOMAIN content.projects |->
                        header \o content.projects[k].name \o <<LF, LF>>
                        \o content.projects[k].text]
        messages == [k \in DOMAIN pages |-> Pop3Message(pages[k])]
    IN  [messages |-> messages,
         total_size |-> Len(Concat([k \in DOMAIN messages |-> Concat(messages[k].lines)]))]

\* The maildrop main builds once, before it accepts connections.
Pop3Maildrop == Pop3ContentFrom(Pop3Site)

PopOk == <<43, 79, 75, 13, 10>>
PopErr == <<45, 69, 82, 82, 13, 10>>
PopEnd == <<46, 13, 10>>

\* "+OK {} {}\r\n"
PopOkPair(a, b) == <<43, 79, 75, 32>> \o Decimal(a) \o <<SP>> \o Decimal(b) \o <<CR, LF>>

\* The lines of a LIST without argument, "{} {}\r\n" for each message, each
\* a write of its own.
PopListing(messages) ==
    [i \in DOMAIN messages |->
        Decimal(i) \o <<SP>> \o Decimal(messages[i].size) \o <<CR, LF>>]

\* One command of the authorization loop: the buffers it writes, one write
\* each, and what follows the last write.
Authorization(command) ==
    IF command.cmd = "User"
    THEN [writes |-> <<PopOk>>, after |-> "user", fault |-> "none"]
    ELSE IF command.cmd = "Pass"
    THEN [writes |-> <<PopOk>>, after |-> "pass", fault |-> "none"]
    ELSE IF command.cmd = "Quit"
    THEN [writes |-> <<PopOk>>, after |-> "quit", fault |-> "none"]
    ELSE [writes |-> <<PopErr>>, after |-> "none", fault |-> "none"]

\* One command of the transaction loop.  messages[i - 1] with i = 0
\* overflows the subtraction or indexes out of bounds: the task panics
\* before it writes.
Transaction(command, content) ==
    LET messages == content.messages
    IN  IF command.cmd = "Quit"
        THEN [writes |-> <<PopOk>>, after |-> "quit", fault |-> "none"]
        ELSE IF command.cmd = "Stat"
        THEN [writes |-> <<PopOkPair(Len(messages), content.total_size)>>,
              after |-> "none", fault |-> "none"]
        ELSE IF command.cmd \in {"List", "Retr"} /\ command.i # NoNumber
        THEN IF command.i >= Len(messages)
             THEN [writes |-> <<PopErr>>, after |-> "none", fault |-> "none"]
             ELSE IF command.i = 0
             THEN [writes |-> <<>>, after |-> "none", fault |-> "panic"]
             ELSE IF command.cmd = "List"
             THEN [writes |-> <<PopOkPair(command.i, messages[command.i].size)>>,
                   after |-> "none", fault |-> "none"]
             ELSE [writes |-> <<PopOk>> \o messages[command.i].lines \o <<PopEnd>>,
                   after |-> "none", fault |-> "none"]
        ELSE IF command.cmd = "List"
        THEN [writes |-> <<PopOk>> \o PopListing(messages) \o <<PopEnd>>,
              after |-> "none", fault |-> "none"]
        ELSE IF command.cmd \in {"Noop", "Rset"}
        THEN [writes |-> <<PopOk>>, after |-> "none", fault |-> "none"]
        ELSE [writes |-> <<PopErr>>, after |-> "none", fault |-> "none"]

\* "+OK POP3 server ready\r\n"
PopGreeting ==
    <<43, 79, 75, 32, 80, 79, 80, 51, 32, 115, 101, 114, 118, 101, 114, 32,
      114, 101, 97, 100, 121, 13, 10>>

\* "USER a", "PASS b", "QUIT", "STAT", "LIST", "LIST 1", "LIST 2", "LIST
\* 0", "LIST x", "LIST 3", "RETR", "RETR 1", "RETR 2", "RETR 0", "RETR
\* x", "RETR 3", "RETR  +1", "NOOP", "RSET", "DELE 1", ""
Pop3Lines ==
    {<<85, 83, 69, 82, 32, 97>>,
     <<80, 65, 83, 83, 32, 98>>,
     <<81, 85, 73, 84>>,
     <<83, 84, 65, 84>>,
     <<76, 73, 83, 84>>,
     <<76, 73, 83, 84, 32, 49>>,
     <<76, 73, 83, 84, 32, 50>>,
     <<76, 73, 83, 84, 32, 48>>,
     <<76, 73, 83, 84, 32, 120>>,
     <<76, 73, 83, 84, 32, 51>>,
     <<82, 69, 84, 82>>,
     <<82, 69, 84, 82, 32, 49>>,
     <<82, 69, 84, 82, 32, 50>>,
     <<82, 69, 84, 82, 32, 48>>,
     <<82, 69, 84, 82, 32, 120>>,
     <<82, 69, 84, 82, 32, 51>>,
     <<82, 69, 84, 82, 32, 32, 43, 49>>,
     <<78, 79, 79, 80>>,
     <<82, 83, 69, 84>>,
     <<68, 69, 76, 69, 32, 49>>,
     <<>>}

\* A connection just accepted, the greeting still to be written.  server
\* is the task's state: where it stands (pc), the buffers the command in
\* hand has still to write, what follows the last of them (after), whether
\* a write of this command took less than its buffer (short), and what
\* the task returned (result).  response is what the client was sent since
\* the last line was read, pending that line.
InitPop3 ==
    /\ session = SessionNew
    /\ stage = "accepted"
    /\ handler = "idle"
    /\ pending = <<>>
    /\ response = <<>>
    /\ fault = "none"
    /\ oneshot = "empty"
    /\ notify = 0
    /\ sup = [pc |-> "await_channel", sleep |-> 0, fired |-> FALSE, closes |-> 0]
    /\ quiet = [recv |-> 0, data |-> 0, late |-> FALSE]
    /\ last = Did("accept")
    /\ tty = TtyInit
    /\ fed = 0
    /\ server = [open |-> TRUE, pc |-> "write", got_user |-> FALSE,
                 got_pass |-> FALSE, writes |-> <<PopGreeting>>,
                 after |-> "none", short |-> FALSE, result |-> "none"]

\* get_command!() with a line read: the command is parsed and its arm
\* chosen by the loop the task is in; an arm that panics ends the task
\* there.
Pop3Read(line) ==
    LET arm == IF server.got_user /\ server.got_pass
               THEN Transaction(Pop3CommandNew(line), Pop3Maildrop)
               ELSE Authorization(Pop3CommandNew(line))
    IN  /\ server.open
        /\ fault = "none"
        /\ server.pc = "read"
        /\ fed < MaxPop3Lines
        /\ fed' = fed + 1
        /\ pending' = line
        /\ response' = <<>>
        /\ fault' = arm.fault
        /\ server' = IF arm.fault # "none" THEN server
                     ELSE [server EXCEPT !.pc = "write", !.writes = arm.writes,
                                         !.after = arm.after, !.short = FALSE]
        /\ last' = Did("line")
        /\ UNCHANGED <<session, stage, handler, tty>>
        /\ UNCHANGED supVars

\* writer.write(buf).await? with room in the socket for so many bytes: the
\* socket takes the buffer's first bytes up to that room and the count
\* written is dropped, so the rest is never sent.  After the last write of
\* an arm the flag it sets is set, or the task returns Ok(()) on QUIT, and
\* the loop reads again.
Pop3Write(room) ==
    /\ server.open
    /\ fault = "none"
    /\ server.pc = "write"
    /\ server.writes # <<>>
    /\ LET buf == Head(server.writes)
           n == IF room < Len(buf) THEN room ELSE Len(buf)
           wrote == [server EXCEPT !.writes = Tail(@), !.short = @ \/ n < Len(buf)]
       IN  /\ response' = response \o SubSeq(buf, 1, n)
           /\ server' =
                 IF wrote.writes # <<>> THEN wrote
                 ELSE [wrote EXCEPT
                          !.pc = "read",
                          !.after = "none",
                          !.got_user = @ \/ server.after = "user",
                          !.got_pass = @ \/ server.after = "pass",
                          !.open = server.after # "quit",
                          !.result = IF server.after = "quit" THEN "ok" ELSE @]
    /\ last' = Did("write")
    /\ UNCHANGED <<session, stage, handler, pending, fault, tty, fed>>
    /\ UNCHANGED supVars

\* The ways the task returns without a QUIT: next_line() finds the stream
\* at its end (None => return Ok(())), or a read or a write fails and `?`
\* returns the error.
Pop3End(how) ==
    /\ server.open
    /\ fault = "none"
    /\ how = "eof" => server.pc = "read"
    /\ server' = [server EXCEPT !.open = FALSE,
                                !.result = IF how = "eof" THEN "ok" ELSE "err"]
    /\ last' = Did(how)
    /\ UNCHANGED <<session, stage, handler, pending, response, fault, tty, fed>>
    /\ UNCHANGED supVars

\* The room a write finds in the socket: for one byte, for five, or for
\* more than any buffer of the maildrop.
SendRoom == {1, 5, 1024}

NextPop3 ==
    \/ \E line \in Pop3Lines : Pop3Read(line)
    \/ \E room \in SendRoom : Pop3Write(room)
    \/ \E how \in {"eof", "error"} : Pop3End(how)

SpecPop3 == InitPop3 /\ [][NextPop3]_vars

(***************************************************************************)
(* A client that announces sizes at the edges of the u32 and u16 ranges    *)
(***************************************************************************)
\* Widths and heights: none, two, and one more than a u16 holds.  A running
\* pager is resized to the first two heights only (its render draws every
\* row of the height it is given).
EdgeSizes == {0, 2, U16Max + 1}
EdgeHeights == {0, 2}

NextEdges ==
    \/ \E user \in Users : Auth(user)
    \/ ChannelOpen
    \/ \E width \in EdgeSizes, height \in EdgeSizes : Pty(width, height)
    \/ \E width \in EdgeSizes, height \in EdgeHeights : Resize(width, height)
    \/ Command(ViHome)
    \/ Key(106)
    \/ DataResume
    \/ DataStep
    \/ SupChannel
    \/ SupRecv

SpecEdges == Init /\ [][NextEdges]_vars

\* C1: after every byte fed to the shell, 0 <= cursor <= length of the
\* current editable line (the working copy at the history browse index).
CursorInLine ==
    fault = "none" =>
        /\ session.shell.cursor >= 0
        /\ session.shell.cursor <= Len(CurrentLine(session.shell))

\* A line recalled from the history, the cursor at its end.
CursorAtEndOfRecalledLine ==
    /\ fault = "none"
    /\ session.shell.history_index = 1
    /\ session.shell.cursor > 0
    /\ session.shell.cursor = Len(CurrentLine(session.shell))

\* C2: after every byte, an ideal terminal fed with the bytes process
\* returned shows the shell's current line, its cursor in the shell's column.
TerminalSynchronized == fault = "none" => InSync(session.shell, tty)

\* C3: after each movement key and each resize of a running pager, the screen
\* row get_cursor_screen computes lies in [0, usable_height).
CursorOnScreen ==
    /\ InPager
    /\ fault = "none"
    /\ last.op = "resize" \/ (last.op = "byte" /\ last.pager)
    => LET screen == GetCursorScreen(session.running_app)
       IN  /\ ~screen.panic
           /\ screen.y >= 0
           /\ screen.y < session.running_app.available_height

(***************************************************************************)
(* The shell's history and editing keys                                    *)
(***************************************************************************)
\* The shell after an arrow key: ESC, '[' and the key's letter.
Arrow(sh, key) == Process(Process(Process(sh, ESC).shell, 91).shell, key).shell

RECURSIVE Presses(_, _, _)
Presses(sh, key, n) ==
    IF n = 0 THEN sh ELSE Presses(Arrow(sh, key), key, n - 1)

RoundTrip(sh, n) == Presses(Presses(sh, 65, n), 66, n)

\* The shell is back at depth 0 with the line it had there.
Restored(sh, back) ==
    /\ back.history_index = 0
    /\ back.current_history[1] = sh.current_history[1]

\* C14: from browse depth 0, whatever the history's length, n up-arrows and
\* then n down-arrows (n may exceed the history's length) bring the browse
\* index back to 0 with the line being edited as it was.
HistoryRoundTrip ==
    /\ fault = "none"
    /\ session.shell.escape = <<>>
    /\ session.shell.history_index = 0
    => \A n \in 0..MaxPresses :
          Restored(session.shell, RoundTrip(session.shell, n))

\* A down-arrow has brought the shell back to a line being edited, the
\* history browsed since the last submit.
BackAtEditedLine ==
    /\ fault = "none"
    /\ last.byte = 66
    /\ session.shell.escape = <<>>
    /\ session.shell.history_index = 0
    /\ Len(session.shell.history) >= 1
    /\ Len(session.shell.current_history) >= 2
    /\ CurrentLine(session.shell) # <<>>

\* C15: the stored history grows by the submitted line, empty or not, on
\* each CR or LF outside an escape sequence, and no other byte changes it;
\* a submit and Ctrl-C leave a single, empty working copy at depth 0.
HistoryAppendOnly ==
    [][IF fault' = "none" /\ session.shell.escape = <<>>
          /\ last'.byte \in {CR, LF}
       THEN /\ session'.shell.history
                  = Append(session.shell.history, CurrentLine(session.shell))
            /\ session'.shell.current_history = << <<>> >>
            /\ session'.shell.history_index = 0
       ELSE /\ session'.shell.history = session.shell.history
            /\ fault' = "none" /\ session.shell.escape = <<>> /\ last'.byte = ETX
                  => /\ session'.shell.current_history = << <<>> >>
                     /\ session'.shell.history_index = 0]_vars

\* A line submitted before has been recalled and edited: there are two
\* working copies, the one at depth 1 differs from the stored entry, and the
\* bytes fed next include CR, LF and Ctrl-C.
RecalledLineEdited ==
    /\ fault = "none"
    /\ fed < MaxFeed
    /\ session.shell.escape = <<>>
    /\ Len(session.shell.history) = 1
    /\ Len(session.shell.history) < MaxHist
    /\ session.shell.history_index = 1
    /\ Len(session.shell.current_history) = 2
    /\ session.shell.current_history[2] # session.shell.history[1]

\* C16: BS or DEL with the cursor at offset 0 returns no bytes and no
\* command and leaves the shell as it was.
BackspaceAtStart ==
    [][/\ session.shell.escape = <<>>
       /\ session.shell.cursor = 0
       /\ last'.byte \in {BS, DEL}
       => /\ fault' = "none"
          /\ session'.shell = session.shell
          /\ Process(session.shell, last'.byte).out = <<>>
          /\ Process(session.shell, last'.byte).cmd = None]_vars

\* 'a', Ctrl-A and then BS: the line is still there, the cursor before it.
BackspacedAtStart ==
    /\ fault = "none"
    /\ fed = 3
    /\ last.byte = BS
    /\ session.shell.cursor = 0
    /\ CurrentLine(session.shell) = <<97>>

\* n cursor-right codes, ESC [ C.
RECURSIVE CursorRight(_)
CursorRight(n) == IF n = 0 THEN <<>> ELSE <<27, 91, 67>> \o CursorRight(n - 1)

\* C17: on Ctrl-E the cursor is set to the end of the line and the bytes
\* returned are one cursor-right code per character passed over, which take
\* the terminal's cursor to the end of the line.
CtrlEMovesRight ==
    [][/\ fault' = "none"
       /\ session.shell.escape = <<>>
       /\ last'.byte = ENQ
       => /\ session'.shell.cursor = Len(CurrentLine(session.shell))
          /\ Process(session.shell, ENQ).out
                = CursorRight(Len(CurrentLine(session.shell)) - session.shell.cursor)
          /\ tty'.col = Len(CurrentLine(session.shell))]_vars

(***************************************************************************)
(* The session's two modes                                                 *)
(***************************************************************************)
\* A step that is one turn of data's loop, taken to its end.
TookByte == handler = "bytes" /\ pending' # pending

EndsWith(s, t) ==
    Len(s) >= Len(t) /\ SubSeq(s, Len(s) - Len(t) + 1, Len(s)) = t

\* The command the shell submits on the byte now at the head of pending, and
\* the words of it.
Submitted == Process(session.shell, Head(pending)).cmd
Words == Split(Submitted, SP)

\* The byte at the head of pending submits a vi command that names no file,
\* or a path that does not resolve to one.
ViFails ==
    /\ ~InPager
    /\ Submitted # None
    /\ Words[1] = CmdVi
    /\ Len(Words) >= 2 => GetFile(Content, session.current_dir, Words[2]) = NoFile

ViErrorLine ==
    IF Len(Words) < 2 THEN ViUsage ELSE ViCannotOpen \o Words[2] \o NoSuchFile

\* C8: each byte is handled by the one mode the session is in.  With a pager
\* running no byte changes the shell, the directory or the connection, and a
\* byte other than ETX goes to the pager, whose output is appended to the
\* response as it is; with none running, no pager is given a byte: one there
\* afterwards has just been started and has not moved.
OneModePerByte ==
    [][TookByte =>
        IF InPager
        THEN /\ session'.shell = session.shell
             /\ session'.current_dir = session.current_dir
             /\ stage' = stage
             /\ Head(pending) # ETX =>
                   /\ session'.running_app
                         = VimData(session.running_app, Head(pending)).vim
                   /\ response' = response
                         \o VimData(session.running_app, Head(pending)).out
        ELSE InPager' =>
                /\ session'.running_app.cursor_pos = <<0, 0>>
                /\ session'.running_app.scroll_pos = <<0, 0>>]_vars

\* The pager has been given a j and has moved a line down.
PagerTookKey ==
    /\ InPager /\ fault = "none"
    /\ last.op = "byte" /\ last.pager /\ last.byte = 106
    /\ session.running_app.cursor_pos[2] > 0
    /\ response # <<>>

\* C9: ETX discards a running pager and appends clear-screen, cursor-home
\* and the prompt, leaving the shell as it was to take the next byte; a pager
\* starts only on a submitted vi command whose path resolves to a file, and
\* stops only on ETX.
EtxLeavesPager ==
    [][/\ TookByte /\ InPager /\ Head(pending) = ETX =>
             /\ ~InPager'
             /\ session'.shell = session.shell
             /\ response' = response \o Clear \o MoveCursor(0, 0).data
                                     \o Prompt(session')
       /\ InPager /\ ~InPager' => TookByte /\ Head(pending) = ETX
       /\ ~InPager /\ InPager' =>
             /\ TookByte
             /\ Submitted # None
             /\ Words[1] = CmdVi
             /\ Len(Words) >= 2
             /\ GetFile(Content, session.current_dir, Words[2]) # NoFile]_vars

\* ETX has ended the pager, a byte of the same data event still to come.
LeftPagerMidEvent ==
    /\ ~InPager
    /\ last.op = "byte" /\ last.pager /\ last.byte = ETX
    /\ pending = <<106>>

\* C10: a vi command with no argument, or with a path that resolves to no
\* file, appends its error line and then the prompt, starts no pager and
\* leaves the current directory and the terminal size as they were.
FailedViChangesNothing ==
    [][TookByte /\ ViFails =>
          /\ ~InPager'
          /\ session'.current_dir = session.current_dir
          /\ session'.term_size = session.term_size
          /\ EndsWith(response', ViErrorLine \o Prompt(session))]_vars

\* A vi command has failed in a directory other than the root.
ViFailedInBlog ==
    /\ ~InPager
    /\ last.op = "byte" /\ ~last.pager /\ last.byte = CR
    /\ session.current_dir # 0
    /\ EndsWith(response, NoSuchFile \o Prompt(session))

(***************************************************************************)
(* The idle timeout                                                        *)
(***************************************************************************)
\* C4: a connection that stays open with no data for the idle duration, for
\* ever, is force-closed by the timeout task.
IdleConnectionClosed ==
    <>[](Alive /\ quiet.data >= Timeout) => <>(sup.closes > 0)

\* C5: the timeout fires only a full timeout after the later of the hand-off
\* and the last notification received, and so never on a connection whose
\* data events have all come less than a timeout apart.
FiresAfterFullTimeout ==
    sup.fired =>
        /\ quiet.recv >= Timeout
        /\ quiet.data >= Timeout \/ quiet.late

\* C6: the data callback is never suspended in its send, waiting for the
\* timeout task to take the notification before.
NeverSuspended == handler # "blocked"

\* C7: the timeout task closes the channel once if its sleep completed and
\* not at all otherwise; a session over before the sleep completed is never
\* force-closed; and once the session is over the task returns.
SupervisorOutcomes ==
    /\ [](/\ sup.closes <= 1
          /\ sup.pc = "done" => sup.closes = IF sup.fired THEN 1 ELSE 0)
    /\ [](SenderGone /\ ~sup.fired /\ sup.sleep < Timeout => [](~sup.fired))
    /\ (SenderGone ~> sup.pc = "done")

(***************************************************************************)
(* The virtual filesystem                                                  *)
(***************************************************************************)
\* The file a path names from directory D: the path's directory part is
\* followed from D, or from the root if the path starts with '/', and its
\* last segment looked up there.
ResolveFile(dirs, D, p) ==
    LET split == Contains(p, Slash)
        directory == SubSeq(p, 1, LastIndex(p, Slash) - 1)
        filename == IF split THEN SubSeq(p, LastIndex(p, Slash) + 1, Len(p))
                    ELSE p
        d == IF ~split THEN D
             ELSE Walk(dirs, IF Head(p) = Slash THEN 0 ELSE D,
                       Split(directory, Slash))
    IN  IF d # NoDir /\ filename \in DOMAIN dirs[d + 1].files
        THEN dirs[d + 1].files[filename]
        ELSE NoFile

\* C18: from every directory D, get_file returns for a relative path the
\* file found by following the path's directory part from D, and for an
\* absolute path the file found from the root.
GetFileResolves ==
    fed > 0 =>
        response = ResolveFile(Content, session.current_dir, pending).contents

\* The segment by which the path has just grown.
Grown ==
    IF fed = 0 THEN pending'
    ELSE SubSeq(pending', Len(pending) + 2, Len(pending'))

\* C19: dir_at follows the segments from the root: an empty segment and "."
\* stay, ".." goes to the parent (stays at the root), a name goes to the
\* child of that name, and once a name is missing the result is none; the
\* stored path of each directory resolves to that directory.
DirAtWalksSegments ==
    /\ [][fed' = fed + 1 =>
            last'.byte =
               IF last.byte = NoDir THEN NoDir
               ELSE IF Grown \in {<<>>, <<Dot>>} THEN last.byte
               ELSE IF Grown = <<Dot, Dot>>
               THEN IF Content[last.byte + 1].parent # NoParent
                    THEN Content[last.byte + 1].parent ELSE last.byte
               ELSE IF Grown \in DOMAIN Content[last.byte + 1].directories
               THEN Content[last.byte + 1].directories[Grown]
               ELSE NoDir]_vars
    /\ [](\A d \in 0..(Len(Content) - 1) :
             fed > 0 /\ pending = Content[d + 1].path => last.byte = d)

\* dir_at has been given the stored path of the blog directory, "/blog".
ResolvedStoredPath ==
    /\ fed = 2
    /\ pending = Content[3].path
    /\ Content[3].parent = 0
    /\ last.byte = 2

(***************************************************************************)
(* Commands                                                                *)
(***************************************************************************)
\* The byte at the head of pending submits a cd naming neither ".." nor a
\* child of the current directory.
CdTarget == IF Len(Words) >= 2 THEN Words[2] ELSE <<>>

CdFails ==
    /\ ~InPager
    /\ Submitted # None
    /\ Words[1] = CmdCd
    /\ CdTarget # <<Dot, Dot>>
    /\ CdTarget \notin DOMAIN Content[session.current_dir + 1].directories

\* The byte at the head of pending submits a cat that names no file, or a
\* path at which there is no file.
CatFails ==
    /\ ~InPager
    /\ Submitted # None
    /\ Words[1] = CmdCat
    /\ Len(Words) >= 2 =>
          ResolveFile(Content, session.current_dir, Words[2]) = NoFile

FailureLine ==
    IF Words[1] = CmdCd THEN <<34>> \o CdTarget \o NoSuchDirectory
    ELSE IF Len(Words) < 2 THEN CatUsage
    ELSE CatCannotOpen \o Words[2] \o NoSuchFile

\* C11: a cd that names neither ".." nor a child directory, and a cat with
\* no argument or of a missing file, add their error line and then the
\* prompt to the response, and leave the current directory, the terminal
\* size, the user and the connection as they were, no pager started.
FailedCommandChangesNothing ==
    [][TookByte /\ (CdFails \/ CatFails) =>
          /\ ~InPager'
          /\ stage' = stage
          /\ session'.current_dir = session.current_dir
          /\ session'.term_size = session.term_size
          /\ session'.username = session.username
          /\ response' = response \o <<CR, LF>> \o FailureLine
                                  \o Prompt(session)]_vars

\* A cd has failed in the blog directory.
CdFailedInBlog ==
    /\ ~InPager
    /\ stage = "open"
    /\ last.op = "byte" /\ ~last.pager /\ last.byte = CR
    /\ session.current_dir = 2
    /\ EndsWith(response, NoSuchDirectory \o Prompt(session))

\* The verbs data's match on the command name has an arm for.
CommandTable ==
    {CmdExit, CmdLogout, CmdHelp, CmdLs, CmdCd, CmdCat, CmdVi, <<>>}

\* How many times t occurs in s.
Occurrences(s, t) ==
    Cardinality({i \in 1..(Len(s) - Len(t) + 1) : SubSeq(s, i, i + Len(t) - 1) = t})

\* What the step has added to the response.
Added == SubSeq(response', Len(response) + 1, Len(response'))

\* C12: a byte that completes a command line (a submit, or Ctrl-C) which
\* neither starts a pager nor disconnects adds to the response text that
\* ends with the prompt and holds it once; for a verb the command table
\* does not have, the text is the echoed line end, the whole line followed
\* by ": command not found" and CRLF, and the prompt.
PromptAfterCommand ==
    [][/\ TookByte /\ ~InPager /\ Submitted # None
       /\ ~InPager' /\ stage' # "ended"
       => /\ EndsWith(Added, Prompt(session'))
          /\ Occurrences(Added, Prompt(session')) = 1
          /\ Words[1] \notin CommandTable =>
                Added = <<CR, LF>> \o Submitted \o CommandNotFound
                        \o Prompt(session')]_vars

\* The line "zz a" has been answered.
UnknownVerbAnswered ==
    /\ ~InPager
    /\ stage = "open"
    /\ last.op = "byte" /\ ~last.pager /\ last.byte = CR
    /\ EndsWith(response, <<CR, LF, 122, 122, 32, 97>> \o CommandNotFound
                           \o Prompt(session))

\* "msg"
CmdMsg == <<109, 115, 103>>

\* C13: a submitted line whose verb is msg, with a subcommand and its
\* argument, is not answered with "command not found".
MsgIsACommand ==
    [][/\ TookByte /\ ~InPager /\ Submitted # None
       /\ Words[1] = CmdMsg /\ Len(Words) >= 3
       => ~EndsWith(response', Submitted \o CommandNotFound
                               \o Prompt(session'))]_vars

(***************************************************************************)
(* Content reloads                                                         *)
(***************************************************************************)
\* C20: a connection accepted after the content was reloaded is given a
\* snapshot built from the reloaded content, and the connections already
\* open keep the snapshot they were given.
NewConnectionsSeeReload ==
    [][/\ Len(server'.conns) > Len(server.conns) =>
             server'.conns[Len(server'.conns)].content
                 = SshContentNew(SiteAt(server.content))
       /\ \A i \in 1..Len(server.conns) :
             server'.conns[i].content = server.conns[i].content]_vars

(***************************************************************************)
(* The session's snapshot and directory                                    *)
(***************************************************************************)
\* The directories a cd may lead to from directory d of a snapshot.
Neighbours(dirs, d) ==
    ({dirs[d + 1].parent} \ {NoParent})
        \cup {dirs[d + 1].directories[n] : n \in DOMAIN dirs[d + 1].directories}

\* C21: the session keeps the snapshot it was created with, whatever is
\* reloaded meanwhile; its current directory is always an index into that
\* snapshot, and changes only to the parent or to a child of the directory
\* it was.
SnapshotAndDirectoryValid ==
    /\ [](session.current_dir \in 0..(Len(session.content) - 1))
    /\ [][session'.content = session.content]_vars
    /\ [][session'.current_dir # session.current_dir
            => session'.current_dir
                   \in Neighbours(session.content, session.current_dir)]_vars

\* "cd blog" then "cd .." have run, and the content was reloaded meanwhile.
WentDownAndUp ==
    /\ handler = "idle"
    /\ session.shell.history = <<<<99, 100, 32, 98, 108, 111, 103>>,
                                 <<99, 100, 32, 46, 46>>>>
    /\ session.current_dir = 0
    /\ server.content > 0
    /\ session.content = Content

(***************************************************************************)
(* The pager's rendering and movement                                      *)
(***************************************************************************)
\* The rows of a full render in which a row continues its line on the next
\* row only when more than one width of the line remains: row y onwards,
\* from offset start of line (counted from 0).
RECURSIVE WrapRows(_, _, _, _)
WrapRows(v, y, line, start) ==
    IF y >= v.available_height THEN <<>>
    ELSE LET w    == v.term_size[1]
             here == MoveCursor(0, AsU16(y)).data
             text == Lines(v)[line + 1]
         IN  IF line >= Len(Lines(v))
             THEN here \o Placeholder \o WrapRows(v, y + 1, line, start)
             ELSE IF Len(text) - start > w
             THEN here \o SubSeq(text, start + 1, start + w)
                       \o WrapRows(v, y + 1, line, start + w)
             ELSE here \o StrFrom(text, start) \o WrapRows(v, y + 1, line + 1, 0)

\* The full render with those rows.
WrapRender(v) ==
    Clear \o MoveCursor(0, 0).data
          \o WrapRows(v, 0, v.scroll_pos[1], v.scroll_pos[2] * v.term_size[1])
          \o StatusHint
          \o MoveCursor(AsU16(GetCursorScreen(v).x), AsU16(GetCursorScreen(v).y)).data

\* C22: the full render a pager starts with fills each usable row with the
\* next wrap segment: a row takes exactly one width of its line and the next
\* row continues the line only when more than one width of it remained,
\* otherwise the row takes the remainder and the next row starts the next
\* line.  For the lines "abc" and "defgh" at width 3 with 2 usable rows the
\* rows are "abc" and "def".
RenderFillsRows ==
    [][TookByte /\ ~InPager /\ InPager'
          => EndsWith(response', WrapRender(session'.running_app))]_vars

\* The last valid column of the line the pager's cursor is on.
LastChar(v) == Max(Len(Lines(v)[v.cursor_pos[2] + 1]), 1) - 1

\* C23: while a pager runs its cursor's line is one of the file's lines, and
\* an 'l' leaves the line alone and moves the column one to the right only
\* from a column before the line's last valid one, max(len, 1) - 1: the
\* column after it is no greater than that, or is the column it was.
CursorStaysInFile ==
    /\ [](InPager /\ fault = "none" =>
             session.running_app.cursor_pos[2]
                 \in 0..(Len(Lines(session.running_app)) - 1))
    /\ [][TookByte /\ InPager /\ Head(pending) = 108 /\ fault' = "none" =>
             LET v == session.running_app
                 u == session'.running_app
             IN  /\ u.cursor_pos[2] = v.cursor_pos[2]
                 /\ u.cursor_pos[1] =
                        IF v.cursor_pos[1] >= LastChar(v) THEN v.cursor_pos[1]
                        ELSE v.cursor_pos[1] + 1
                 /\ u.cursor_pos[1] <= Max(v.cursor_pos[1], LastChar(v))]_vars

\* An 'l' has been pressed with the cursor on the last character of "abc",
\* and has done nothing.
PressedRightAtEnd ==
    /\ InPager /\ fault = "none" /\ handler = "idle"
    /\ last.op = "byte" /\ last.pager /\ last.byte = 108
    /\ Lines(session.running_app)[1] = <<97, 98, 99>>
    /\ session.running_app.cursor_pos = <<2, 0>>
    /\ response = <<>>

\* Two pager states show the same file at the same scroll position on a
\* terminal of the same size.
SameView(v, u) ==
    /\ u.file = v.file
    /\ u.scroll_pos = v.scroll_pos
    /\ u.term_size = v.term_size

\* C24, as claimed: the bytes of a render are determined by the file, the
\* scroll position and the terminal size: a step between two pager states
\* that agree on the three leaves the bytes a render gives as they were.
RenderDeterminedByView ==
    [][InPager /\ InPager' /\ SameView(session.running_app, session'.running_app)
          => Render(session'.running_app) = Render(session.running_app)]_vars

\* C24: the bytes of a render are determined by the file, the scroll
\* position, the terminal size and the screen position of the cursor, where
\* the render leaves the terminal's cursor: a step between two pager states
\* that agree on the four, whatever their stored columns, leaves the bytes a
\* render gives as they were.
RenderDeterminedByViewAndCursor ==
    [][/\ InPager /\ InPager'
       /\ SameView(session.running_app, session'.running_app)
       /\ GetCursorScreen(session'.running_app)
              = GetCursorScreen(session.running_app)
       => Render(session'.running_app) = Render(session.running_app)]_vars

\* A '$' has left the stored column beyond the line with the cursor shown on
\* the last character of "abc", where an 'l' had brought it.
EndOfLineSameScreen ==
    /\ InPager /\ fault = "none" /\ handler = "idle"
    /\ last.op = "byte" /\ last.pager /\ last.byte = 36
    /\ Lines(session.running_app)[1] = <<97, 98, 99>>
    /\ session.running_app.cursor_pos = <<UsizeMaxDiv4, 0>>
    /\ session.running_app.term_size[1] = 3
    /\ GetCursorScreen(session.running_app).x = 2
    /\ response = MoveCursor(2, 0).data

\* update_cursor has just run and returned: on a movement key that answered
\* (an 'l' at the end of its line returns before it, with no answer), or on
\* a resize.
CursorUpdated ==
    /\ InPager /\ fault = "none" /\ handler = "idle"
    /\ \/ last.op = "resize"
       \/ /\ last.op = "byte" /\ last.pager
          /\ last.byte \in {104, 106, 107, 36} \/ (last.byte = 108 /\ response # <<>>)

\* C25, as claimed: update_cursor invoked again, with no movement or resize
\* since it last ran, leaves the scroll position as it is and returns no
\* bytes.
SecondUpdateSilent ==
    CursorUpdated =>
        /\ UpdateCursor(session.running_app).fault = "none"
        /\ UpdateCursor(session.running_app).vim.scroll_pos
              = session.running_app.scroll_pos
        /\ UpdateCursor(session.running_app).out = <<>>

\* C25: update_cursor invoked again, with no movement or resize since it
\* last ran, leaves the pager's state, its scroll position included, as it
\* is, and returns the escape that moves the terminal's cursor to the screen
\* position of the pager's cursor and nothing else: no second scroll, no
\* render.
SecondUpdateOnlyMovesCursor ==
    CursorUpdated =>
        /\ UpdateCursor(session.running_app).fault = "none"
        /\ UpdateCursor(session.running_app).vim = session.running_app
        /\ UpdateCursor(session.running_app).out
              = MoveCursor(AsU16(GetCursorScreen(session.running_app).x),
                           AsU16(GetCursorScreen(session.running_app).y)).data

\* A 'j' has scrolled the pager past the three rows "abcdefg" takes at
\* width 3, to the last line of themes.txt.
ScrolledToLastLine ==
    /\ CursorUpdated
    /\ last.byte = 106
    /\ Len(Lines(session.running_app)) = 3
    /\ session.running_app.term_size = <<3, 2>>
    /\ session.running_app.cursor_pos[2] = 2
    /\ session.running_app.scroll_pos = <<2, 0>>
    /\ Occurrences(response, Clear) = 1

\* The pager v on a terminal resized to width columns and height rows, the
\* characters it has scrolled past on its top line snapped down to a
\* multiple of the new width.
Snapped(v, width, height) ==
    [v EXCEPT !.term_size = <<width, height>>,
              !.available_height = height - 1,
              !.scroll_pos[2] = (@ * v.term_size[1]) \div width]

\* C26: a resize while a pager runs (one the pager returns from) sets the
\* pager's width and its usable height, rows - 1, snaps the characters
\* scrolled past on the top line down to a multiple of the new width (from
\* there the pager scrolls only as far as the cursor needs), and answers
\* with a full render of the state it leaves.
ResizeSnapsScroll ==
    [][InPager /\ last'.op = "resize" /\ fault' = "none" =>
          LET v == session.running_app
              u == session'.running_app
              snapped == Snapped(v, session'.term_size[1], session'.term_size[2])
          IN  /\ u.term_size = session'.term_size
              /\ u.available_height = session'.term_size[2] - 1
              /\ u.scroll_pos \in {snapped.scroll_pos,
                                    UpdateCursor(snapped).vim.scroll_pos}
              /\ EndsWith(response', Render(u).out)]_vars

(***************************************************************************)
(* The shell's escape buffer and history index                             *)
(***************************************************************************)
\* The three-byte sequences of the arrow keys.
Arrows == {<<ESC, 91, 65>>, <<ESC, 91, 66>>, <<ESC, 91, 67>>, <<ESC, 91, 68>>}

\* What the shell returns for the byte the step feeds it.
Returned == Process(session.shell, last'.byte)

\* C27: between calls of process the escape buffer holds at most two bytes.
\* ESC at an empty buffer starts it.  The next byte, whatever it is, joins
\* it with nothing else changed, nothing returned and no command submitted.
\* The byte after that, whatever it is, empties the buffer and submits no
\* command, and unless the three bytes are an arrow key's it returns nothing
\* and leaves the line, the cursor and the history as they were.
EscapeBufferBounded ==
    /\ [](Len(session.shell.escape) <= 2)
    /\ [][fed' # fed /\ fault' = "none" =>
             LET sh == session.shell
                 to == session'.shell
                 triplet == Append(sh.escape, last'.byte)
             IN  /\ sh.escape = <<>> /\ last'.byte = ESC =>
                        to.escape = <<ESC>> /\ Returned.out = <<>>
                 /\ sh.escape = <<>> /\ last'.byte # ESC => to.escape = <<>>
                 /\ Len(sh.escape) = 1 =>
                        /\ to = [sh EXCEPT !.escape = triplet]
                        /\ Returned.out = <<>>
                        /\ Returned.cmd = None
                 /\ Len(sh.escape) = 2 =>
                        /\ to.escape = <<>>
                        /\ Returned.cmd = None
                        /\ to.history = sh.history
                        /\ triplet \notin Arrows =>
                               /\ Returned.out = <<>>
                               /\ CurrentLine(to) = CurrentLine(sh)
                               /\ to.cursor = sh.cursor
                               /\ to.history_index = GetLine(sh).history_index]_vars

\* ESC and Ctrl-C are in the buffer, with the line typed before them still
\* being edited.
ControlByteInEscape ==
    /\ fault = "none"
    /\ session.shell.escape = <<ESC, ETX>>
    /\ CurrentLine(session.shell) # <<>>
    /\ session.shell.history = <<>>


\* C28: after every byte the history index is at most the number of stored
\* entries; a working copy the byte adds at depth i >= 1 is the i-th most
\* recent stored entry; and an up arrow at the oldest entry leaves the index
\* and the line where they were.
HistoryIndexClamped ==
    /\ [](session.shell.history_index <= Len(session.shell.history))
    /\ [][fed' # fed /\ fault' = "none" =>
             LET sh == session.shell
                 to == session'.shell
             IN  /\ \A i \in Len(sh.current_history)..(Len(to.current_history) - 1) :
                        to.current_history[i + 1]
                            = to.history[Len(to.history) - i + 1]
                 /\ /\ Append(sh.escape, last'.byte) = <<ESC, 91, 65>>
                    /\ sh.history_index = Len(sh.history)
                    => /\ to.history_index = sh.history_index
                       /\ CurrentLine(to) = CurrentLine(sh)]_vars

\* Three up arrows with two entries stored: both have been recalled, "b"
\* then "a", and the third arrow has stayed on "a".
UpAtOldestEntry ==
    /\ fault = "none"
    /\ fed = 9
    /\ last.byte = 65
    /\ session.shell.history = <<<<97>>, <<98>>>>
    /\ session.shell.history_index = 2
    /\ session.shell.current_history = <<<<>>, <<98>>, <<97>>>>

\* The column the pager's cursor is shown in on its line: the stored column,
\* or the line's last valid column if the stored one is beyond it.
EffectiveColumn(v) == Min(v.cursor_pos[1], LastChar(v))

\* C29: a '$' leaves the cursor on its line with the effective column the
\* line's last valid one; an 'h' leaves the cursor on its line, takes a
\* stored column at or beyond the last valid one to one left of the last
\* valid one, and in every case moves the effective column one to the left
\* or leaves it at 0; the answer ends by moving the terminal's cursor to the
\* screen position of the column it leaves.
LeftFromEndOfLine ==
    [][TookByte /\ InPager /\ Head(pending) \in {36, 104} /\ fault' = "none" =>
          LET v == session.running_app
              u == session'.running_app
          IN  /\ u.cursor_pos[2] = v.cursor_pos[2]
              /\ Head(pending) = 36 => EffectiveColumn(u) = LastChar(v)
              /\ Head(pending) = 104 =>
                     /\ v.cursor_pos[1] >= LastChar(v)
                            => u.cursor_pos[1] = Max(LastChar(v) - 1, 0)
                     /\ EffectiveColumn(u) = Max(EffectiveColumn(v) - 1, 0)
              /\ GetCursorScreen(u).x = EffectiveColumn(u) % u.term_size[1]
              /\ EndsWith(response',
                          MoveCursor(AsU16(GetCursorScreen(u).x),
                                     AsU16(GetCursorScreen(u).y)).data)]_vars

\* An 'h' has taken the cursor to the last column but one of "defgh"; it
\* was on the last column or beyond it.
LeftOfLastColumn ==
    /\ InPager /\ fault = "none" /\ handler = "idle"
    /\ last.op = "byte" /\ last.pager /\ last.byte = 104
    /\ session.running_app.cursor_pos = <<3, 1>>
    /\ Lines(session.running_app)[2] = <<100, 101, 102, 103, 104>>
    /\ EndsWith(response,
                MoveCursor(3 % session.running_app.term_size[1],
                           GetCursorScreen(session.running_app).y).data)

(***************************************************************************)
(* The channel's hand-off                                                  *)
(***************************************************************************)
\* C30: the first channel-open request of a connection is accepted and
\* hands the channel to the timeout task; every later one is refused and
\* changes nothing; the channel is handed over by nothing else, and the
\* session, once it has handed it over, has nothing left to hand over.
ChannelHandedOnce ==
    /\ [][last' # last /\ last'.op = "channel_open" =>
             IF session.channel_tx
             THEN /\ last'.accepted
                  /\ oneshot = "empty" /\ oneshot' = "sent"
                  /\ ~session'.channel_tx
             ELSE /\ ~last'.accepted
                  /\ oneshot' = oneshot
                  /\ session' = session]_vars
    /\ [][oneshot' = "sent" /\ oneshot # "sent" =>
             oneshot = "empty" /\ session.channel_tx /\ ~session'.channel_tx]_vars
    /\ [][~session.channel_tx => ~session'.channel_tx]_vars

\* The timeout task has taken the channel, and a second channel-open
\* request has been refused.
SecondOpenRefused ==
    /\ last.op = "channel_open" /\ ~last.accepted
    /\ oneshot = "taken"
    /\ ~session.channel_tx
    /\ stage = "open"

(***************************************************************************)
(* cd and paths                                                            *)
(***************************************************************************)
\* The directory a path names, from directory D when it does not start at
\* the root: dir_at's walk of its segments.
ResolveDir(dirs, D, p) ==
    Walk(dirs, IF p # <<>> /\ Head(p) = Slash THEN 0 ELSE D, Split(p, Slash))

\* C31: a submitted cd whose path resolves to a directory, by the walk
\* dir_at makes of its segments (from the root for an absolute path, from
\* the current directory otherwise), leaves that directory the current one.
CdFollowsPath ==
    [][/\ TookByte /\ ~InPager /\ Submitted # None
       /\ Words[1] = CmdCd /\ Len(Words) >= 2
       /\ ResolveDir(session.content, session.current_dir, Words[2]) # NoDir
       => session'.current_dir
             = ResolveDir(session.content, session.current_dir, Words[2])]_vars

(***************************************************************************)
(* Changes and completed callbacks                                         *)
(***************************************************************************)
\* C32: whenever watch_path waits for an event on an empty channel, the
\* last callback that ran to its end was started after every event sent so
\* far: an event that arrives while the callback runs leads to another run,
\* with no later event needed.
EveryChangeReloaded ==
    server.pc = "recv" /\ pending = <<>> => server.loaded = fed

(***************************************************************************)
(* Unread threads of one host                                              *)
(***************************************************************************)
\* The thread was created from some port of the host.
OriginatesFrom(thread, ip) ==
    \E port \in Ports : thread.source_ip = AddrToString([ip |-> ip, port |-> port])

\* C33: after any interleaving of create_thread and send_message calls the
\* threads with unread messages that were created from one host number at
\* most msg_max_unread_threads_ip, whatever source ports they came from.
UnreadThreadsPerHostBounded ==
    \A ip \in Hosts :
        Cardinality({i \in DOMAIN server.threads :
                        /\ server.threads[i].unread > 0
                        /\ OriginatesFrom(server.threads[i], ip)})
            <= MsgMaxUnreadThreadsIp

(***************************************************************************)
(* POP3 message numbers                                                    *)
(***************************************************************************)
\* The line the connection has read last, as a command.
PopCommand == Pop3CommandNew(pending')

\* The words of that line after the verb.
PopArgs == Tail(SplitWhitespace(pending'))

\* The line asks for message n by a decimal number, with or without a
\* sign.
PopAsks(n) ==
    Len(PopArgs) >= 1 /\ PopArgs[1] \in {Decimal(n), <<Plus>> \o Decimal(n)}

\* This step is the last write of a command's answer, and every write of
\* the answer took its whole buffer.
PopAnswered ==
    /\ last'.op = "write"
    /\ server.pc = "write"
    /\ server'.pc = "read"
    /\ ~server'.short

\* C34: in the transaction state message numbers are 1-indexed: RETR n and
\* LIST n with 1 <= n <= count answer +OK with message n (the n-th element
\* of the maildrop); a RETR or LIST n with any other argument (0, none for
\* RETR, not a number, above count) is answered -ERR, and nothing faults.
\* The answer is what the client has been sent when the command's last
\* write is done, no write having been cut short.
MessageNumbersOneIndexed ==
    [][/\ server.open /\ server.got_user /\ server.got_pass
       /\ PopCommand.cmd \in {"Retr", "List"}
       => /\ last'.op = "line" => fault' = "none"
          /\ PopAnswered =>
                /\ \A n \in 1..Len(Pop3Maildrop.messages) :
                      PopAsks(n) =>
                          IF PopCommand.cmd = "Retr"
                          THEN response' = PopOk \o Concat(Pop3Maildrop.messages[n].lines)
                                           \o PopEnd
                          ELSE response' = PopOkPair(n, Pop3Maildrop.messages[n].size)
                /\ (\A n \in 1..Len(Pop3Maildrop.messages) : ~PopAsks(n))
                   /\ (PopCommand.cmd = "Retr" \/ PopArgs # <<>>)
                      => response' = PopErr]_vars

(***************************************************************************)
(* The shell and every byte                                                *)
(***************************************************************************)
\* C35: whatever bytes 0..255 are fed, bytes of 128 and above included,
\* Shell::process returns: the shell never faults, and its cursor stays an
\* offset of the current line at which the line can be sliced.
ShellTotal ==
    /\ fault = "none"
    /\ session.shell.cursor <= Len(CurrentLine(session.shell))
    /\ IsCharBoundary(CurrentLine(session.shell), session.shell.cursor)

(***************************************************************************)
(* Bytes the pager has no use for                                          *)
(***************************************************************************)
\* h, j, k, l, $ and the interrupt byte.
PagerKeys == MoveKeys \cup {ETX}

\* C36: while the pager runs, a byte other than h, j, k, l, $ and ETX is
\* ignored: the session task takes it without a fault, appends nothing to
\* the response and leaves the session as it was.
PagerIgnoresOtherBytes ==
    [][/\ handler = "bytes" /\ InPager
       /\ Head(pending) \notin PagerKeys
       /\ (pending' # pending \/ fault' # fault)
       => /\ fault' = "none"
          /\ session' = session
          /\ response' = response]_vars

(***************************************************************************)
(* The end of the cursor-update loop                                       *)
(***************************************************************************)
\* The pager v on a terminal of the given size, as resize leaves it before
\* it calls update_cursor.
Resized(v, width, height) ==
    [v EXCEPT !.term_size = <<width, height>>, !.available_height = height - 1]

\* C37: in every pager state the session reaches, update_cursor's loop
\* comes to an end, at the pager's size and at every size of at least one
\* column and one row a resize may bring, one row included.
UpdateLoopTerminates ==
    InPager /\ fault = "none" =>
        /\ UpdateCursor(session.running_app).fault # "hang"
        /\ \A width \in Cols, height \in Rows :
              UpdateCursor(Resized(session.running_app, width, height)).fault
                  # "hang"

(***************************************************************************)
(* Sizes the client announces                                              *)
(***************************************************************************)
\* C38: whatever width and height the client announces (0, or more than a
\* u16 holds), neither starting the pager nor resizing it faults: the
\* session task that was running before a resize, or before a byte given to
\* the shell, is running after it.
SizesNeverFault ==
    [][/\ fault = "none"
       /\ \/ last'.op = "resize"
          \/ handler = "bytes" /\ ~InPager
       => fault' = "none"]_vars

(***************************************************************************)
(* The scroll position and the file                                        *)
(***************************************************************************)
\* The scroll position of v names a line of the file and a sub-line that
\* starts within it.
ScrollInFile(v) ==
    /\ v.scroll_pos[1] \in 0..(Len(Lines(v)) - 1)
    /\ v.scroll_pos[2] * v.term_size[1] <= Len(Lines(v)[v.scroll_pos[1] + 1])

\* C39: in every pager state the session reaches the scroll position names
\* a line of the file and a sub-line that starts within that line, and the
\* same holds of the state a resize hands to render (the new size set, the
\* cursor update done), also when the terminal is made wider while the
\* pager is scrolled into a wrapped line.
ScrollStaysInFile ==
    InPager /\ fault = "none" =>
        /\ ScrollInFile(session.running_app)
        /\ \A width \in Cols, height \in Rows :
              LET moved == UpdateCursor(Resized(session.running_app, width, height))
              IN  moved.fault = "none" => ScrollInFile(moved.vim)

(***************************************************************************)
(* Where render draws the character under the cursor                       *)
(***************************************************************************)
\* The rows render fills, from row y on: for each the line it shows (from 0,
\* or the number of lines when the file is over) and the characters
\* from+1..to of it.
RECURSIVE DrawnRows(_, _, _, _)
DrawnRows(v, y, line, start) ==
    IF y >= v.available_height THEN <<>>
    ELSE IF line >= Len(Lines(v))
    THEN <<[line |-> line, from |-> 0, to |-> 0]>> \o DrawnRows(v, y + 1, line, start)
    ELSE IF Len(Lines(v)[line + 1]) >= start + v.term_size[1]
    THEN <<[line |-> line, from |-> start, to |-> start + v.term_size[1]]>>
         \o DrawnRows(v, y + 1, line, start + v.term_size[1])
    ELSE <<[line |-> line, from |-> start, to |-> Len(Lines(v)[line + 1])]>>
         \o DrawnRows(v, y + 1, line + 1, 0)

\* The bytes that draw those rows.
RECURSIVE RowsText(_, _, _)
RowsText(v, rows, y) ==
    IF y > Len(rows) THEN <<>>
    ELSE MoveCursor(0, AsU16(y - 1)).data
         \o (IF rows[y].line >= Len(Lines(v)) THEN Placeholder
             ELSE SubSeq(Lines(v)[rows[y].line + 1], rows[y].from + 1, rows[y].to))
         \o RowsText(v, rows, y + 1)

\* The rows (from 1) on which the character under the cursor is drawn: the
\* rows of the cursor's line whose characters include the effective column
\* (the row of an empty line holds its column 0).
CursorRows(v, rows) ==
    {y \in DOMAIN rows :
        /\ rows[y].line = v.cursor_pos[2]
        /\ rows[y].from <= EffectiveColumn(v)
        /\ \/ EffectiveColumn(v) < rows[y].to
           \/ Lines(v)[v.cursor_pos[2] + 1] = <<>>}

\* C40: at a terminal of at least one column and one usable row, in every
\* state the movement keys reach, render draws the character under the
\* cursor on exactly one row, and get_cursor_screen returns that row and
\* the character's column in it; a line of len characters takes
\* floor(len / width) + 1 rows in both.
CursorWhereRenderDraws ==
    InPager /\ fault = "none" /\ session.running_app.available_height >= 1 =>
        LET v == session.running_app
            start == v.scroll_pos[2] * v.term_size[1]
            rows == DrawnRows(v, 0, v.scroll_pos[1], start)
            screen == GetCursorScreen(v)
        IN  /\ RenderRows(v, 0, v.scroll_pos[1], start).out = RowsText(v, rows, 1)
            /\ CursorRows(v, rows) = {screen.y + 1}
            /\ screen.x = EffectiveColumn(v) - rows[screen.y + 1].from
            /\ \A a \in DOMAIN rows, b \in DOMAIN rows :
                  /\ a < b /\ rows[a].from = 0
                  /\ rows[b].line = rows[a].line + 1
                  /\ rows[b - 1].line = rows[a].line
                  => b - a = Len(Lines(v)[rows[a].line + 1]) \div v.term_size[1] + 1

\* A movement key has left the cursor on the second row of a wrapped line,
\* and the pager has returned.
CursorOnWrappedRow ==
    /\ InPager /\ fault = "none" /\ handler = "idle"
    /\ last.op = "byte" /\ last.pager
    /\ session.running_app.available_height >= 1
    /\ session.running_app.scroll_pos = <<0, 0>>
    /\ EffectiveColumn(session.running_app) >= session.running_app.term_size[1]
    /\ GetCursorScreen(session.running_app).y = 1

=============================================================================
